---- MODULE Spec2Model ----
(***************************************************************************)
(* A model of @homelocal/auth: the Token Manager (token store and renewal  *)
(* coordinator, TokenManager.js) and the OAuth authorization-code flow     *)
(* (oauth.js, useOAuth.js / useOAuth.ts, OAuthCallbackPage.js), the        *)
(* silent authentication handshake (silentAuth.js), the orchestrator       *)
(* (AuthProvider.js), the authenticated HTTP client (axios.ts) and the     *)
(* external-token provider (ExternalTokenProvider.tsx).                    *)
(*                                                                         *)
(* JavaScript runs single-threaded: every action below is one synchronous  *)
(* run of code (a call up to its first await, or the continuation of an    *)
(* await), and the actions interleave at the await points only.            *)
(***************************************************************************)
EXTENDS Integers, Sequences, FiniteSets, TLC

VARIABLES
    now,              \* Date.now(), in milliseconds
    ticks,            \* how often the clock has advanced
    sessionStorage,   \* window.sessionStorage: key -> stored string or Null
    storageAvailable, \* FALSE: every sessionStorage access throws
    config,           \* per Token Manager: storageKey, expiryKey, tokenFetcher?
    memoryToken,      \* per Token Manager: the in-memory token
    memoryExpiry,     \* per Token Manager: the in-memory expiry (epoch ms)
    renewalPromise,   \* per Token Manager: 0 (null) or the id of a promise
    attempts,         \* the promises created by the renewal IIFE, by id
    calls,            \* the ensureAccessToken() calls made so far
    settled,          \* per Token Manager: tokenFetcher calls that have settled
    reloads,          \* page reloads so far (every Token Manager is created anew)
    build,            \* which useOAuth runs: "js" (useOAuth.js) or "ts" (useOAuth.ts)
    engineQuotes,     \* the engine's JSON.parse SyntaxError message quotes the input
    query,            \* window.location.search of the current page, parsed
    inv,              \* the handleCallback() invocations of the current page
    logins,           \* initiateLogin() calls so far (one random state each)
    navs,             \* navigations to a callback URL so far
    passed,           \* invocations that passed validateState since the last login
    completed,        \* the CSRF state whose validated handling has completed, or Null
    exchanges,        \* token requests (POST /oauth/token with a code) issued so far
    silent,           \* the trySilentAuth() attempts made so far
    delivered,        \* message events dispatched on window so far
    authConfig,       \* AuthProvider's config: mode, bff and its optional fields
    user,             \* AuthProvider's user state
    isLoading,        \* AuthProvider's isLoading state
    authError,        \* AuthProvider's error state
    check,            \* the mount-time checkAuth(): where it stands
    ops,              \* the login() and logout() calls made so far
    fetches,          \* the endpoints AuthProvider has requested, in order
    href,             \* window.location.href: "app", or where a redirect leads
    reqs,             \* the requests made through createAuthenticatedClient
    shellToken,       \* what the shell's getAccessToken() returns now
    lastTokenRef,     \* ExternalTokenProvider's lastTokenRef.current
    extUser,          \* ExternalTokenProvider's user state
    extLoading,       \* ExternalTokenProvider's isLoading state
    effect,           \* the polling effect that is set up: its number, 0 for none
    timers,           \* the setInterval timers created so far
    runs,             \* effect runs so far (mount and dependency changes)
    quotaExceeded     \* TRUE: sessionStorage.setItem throws (the quota is used up)

tmVars == <<config, memoryToken, memoryExpiry, renewalPromise, attempts, calls, settled,
           reloads>>
envVars == <<now, ticks, sessionStorage, storageAvailable>>
oaVars == <<build, engineQuotes, query, inv, logins, navs, passed, completed, exchanges>>
saVars == <<silent, delivered>>
apVars == <<authConfig, user, isLoading, authError, check, ops, fetches, href>>
axVars == <<reqs>>
etVars == <<shellToken, lastTokenRef, extUser, extLoading, effect, timers, runs>>
appVars == <<apVars, axVars, etVars, quotaExceeded>>
vars == <<now, ticks, sessionStorage, storageAvailable, config, memoryToken,
          memoryExpiry, renewalPromise, attempts, calls, settled, reloads,
          build, engineQuotes, query, inv, logins, navs, passed, completed, exchanges,
          silent, delivered, authConfig, user, isLoading, authError, check, ops, fetches,
          href, reqs, shellToken, lastTokenRef, extUser, extLoading, effect, timers, runs,
          quotaExceeded>>

----------------------------------------------------------------------------
(* Bounds of the model *)

\* The clock starts here (epoch ms), well past the registration window.
StartNow == 1000000
\* One step of the clock, in ms.
TickMs == 60000
\* The clock advances at most this often.
MaxTicks == 2
\* At most this many ensureAccessToken() calls in one behaviour.
MaxCalls == 3

----------------------------------------------------------------------------
(* JavaScript values.  Every value is a record of one shape, so that any   *)
(* two of them can be compared: null, a string, a number, NaN, and the     *)
(* decimal string that Number.prototype.toString() yields for a number.    *)

Null == [t |-> "null", s |-> "", n |-> 0]
NaN == [t |-> "nan", s |-> "", n |-> 0]
Str(x) == [t |-> "str", s |-> x, n |-> 0]
Num(x) == [t |-> "num", s |-> "", n |-> x]
Dec(x) == [t |-> "dec", s |-> "", n |-> x]

\* JavaScript truthiness of a string-or-null value.
Truthy(v) == v # Null /\ v # Str("")

\* expiry.toString()
NumToString(v) == IF v.t = "num" THEN Dec(v.n) ELSE Str("NaN")

\* A string that starts with the decimal digits of n and goes on with other
\* characters (such as "1050000abc").
DecPrefix(x) == [t |-> "decx", s |-> "", n |-> x]

\* parseInt(expiryStr, 10): a decimal string parses to its number, a string
\* that starts with decimal digits to the number they spell, any other
\* string of the model (no leading digits) to NaN.
parseInt(v) == IF v.t \in {"dec", "decx"} THEN Num(v.n) ELSE NaN

\* a < b on numbers; every comparison with NaN is false.
NumLess(a, b) == a.t = "num" /\ b.t = "num" /\ a.n < b.n

----------------------------------------------------------------------------
(* Token Manager (TokenManager.js, createTokenManager) *)

\* The two Token Managers of a page: the one AuthProvider creates (with a
\* tokenFetcher) and the module's default export (createTokenManager() with
\* no configuration, hence no tokenFetcher).
Managers == {"provider", "default"}

\* ExternalTokenProvider creates a third one, under keys of its own; "custom" is
\* the custom instance of the README, created with a storageKey only.
Stores == Managers \cup {"external", "custom"}

\* expiryBuffer = 60 (seconds), the default of createTokenManager
expiryBuffer == 60

\* The tokens and lifetimes (seconds) a token response or a setToken() carries:
\* with a clock step of 60 s a lifetime of 120 s is fresh, then expiring soon
\* (exactly expiryBuffer before its expiry), then expired.
Tokens == {"tokA", "tokB"}
TTLs == {120, 3600}

\* createTokenManager(config): the defaults of the destructured configuration.
createTokenManager(hasFetcher) ==
    [storageKey |-> "access_token", expiryKey |-> "access_token_expiry",
     tokenFetcher |-> hasFetcher]

\* createTokenManager({storageKey: 'mf_access_token', expiryKey:
\* 'mf_access_token_expiry'}), the Token Manager of ExternalTokenProvider.
externalTokenManager ==
    [createTokenManager(FALSE) EXCEPT !.storageKey = "mf_access_token",
                                      !.expiryKey = "mf_access_token_expiry"]

\* createTokenManager({storageKey: 'my_token', tokenFetcher}): the expiry key
\* is the default one.
customTokenManager ==
    [createTokenManager(TRUE) EXCEPT !.storageKey = "my_token"]

\* readStorage(): {token, expiry}, or {null, null} when sessionStorage throws.
readStorage(m) ==
    IF storageAvailable
    THEN LET expiryStr == sessionStorage[config[m].expiryKey]
         IN [token |-> sessionStorage[config[m].storageKey],
             expiry |-> IF Truthy(expiryStr) THEN parseInt(expiryStr) ELSE Null]
    ELSE [token |-> Null, expiry |-> Null]

\* A variant of writeStorage that writes under the default keys whatever the
\* configuration says.
writeStorageDefaultKeys(m, token, expiry) ==
    IF storageAvailable /\ ~quotaExceeded
    THEN [[sessionStorage EXCEPT !["access_token"] = token]
              EXCEPT !["access_token_expiry"] = NumToString(expiry)]
    ELSE sessionStorage

\* writeStorage(token, expiry): sessionStorage afterwards (as it was when
\* setItem throws).
writeStorage(m, token, expiry) ==
    IF storageAvailable /\ ~quotaExceeded
    THEN [[sessionStorage EXCEPT ![config[m].storageKey] = token]
              EXCEPT ![config[m].expiryKey] = NumToString(expiry)]
    ELSE sessionStorage

\* A variant of clearStorage that removes the token but leaves its expiry.
clearStorageTokenOnly(m) ==
    IF storageAvailable
    THEN [sessionStorage EXCEPT ![config[m].storageKey] = Null]
    ELSE sessionStorage

\* clearStorage(): sessionStorage afterwards.
clearStorage(m) ==
    IF storageAvailable
    THEN [[sessionStorage EXCEPT ![config[m].storageKey] = Null]
              EXCEPT ![config[m].expiryKey] = Null]
    ELSE sessionStorage

\* A variant of isTokenValid for which a token is still valid at its expiry.
isTokenValidInclusive(token, expiry) ==
    IF ~Truthy(token) \/ expiry = Null THEN FALSE
    ELSE expiry.t = "num" /\ now <= expiry.n

\* isTokenValid(token, expiry)
isTokenValid(token, expiry) ==
    IF ~Truthy(token) \/ expiry = Null THEN FALSE ELSE NumLess(Num(now), expiry)

\* A variant of isExpiringSoonCheck that takes expiryBuffer for minutes.
isExpiringSoonCheckMinutes(expiry) ==
    IF expiry = Null THEN FALSE
    ELSE LET bufferMs == expiryBuffer * 60 * 1000
         IN expiry.t = "num" /\ now >= expiry.n - bufferMs

\* A variant of isExpiringSoonCheck that excludes the boundary.
isExpiringSoonCheckStrict(expiry) ==
    IF expiry = Null THEN FALSE
    ELSE LET bufferMs == expiryBuffer * 1000
         IN expiry.t = "num" /\ now > expiry.n - bufferMs

\* isExpiringSoonCheck(expiry): Date.now() >= expiry - bufferMs
isExpiringSoonCheck(expiry) ==
    IF expiry = Null THEN FALSE
    ELSE LET bufferMs == expiryBuffer * 1000
         IN expiry.t = "num" /\ now >= expiry.n - bufferMs

\* A variant of getToken that reads the persisted copy only.
getTokenStorageOnly(m) ==
    LET r == readStorage(m)
    IN IF isTokenValid(r.token, r.expiry) THEN r.token ELSE Null

\* getToken(): the value it returns ...
getToken(m) ==
    IF isTokenValid(memoryToken[m], memoryExpiry[m]) THEN memoryToken[m]
    ELSE LET r == readStorage(m)
         IN IF isTokenValid(r.token, r.expiry) THEN r.token ELSE Null

\* ... and the in-memory pair it leaves (a valid stored pair is restored).
getTokenMemory(m) ==
    IF isTokenValid(memoryToken[m], memoryExpiry[m])
    THEN [token |-> memoryToken[m], expiry |-> memoryExpiry[m]]
    ELSE LET r == readStorage(m)
         IN IF isTokenValid(r.token, r.expiry) THEN r
            ELSE [token |-> memoryToken[m], expiry |-> memoryExpiry[m]]

\* isExpiringSoon(), called with in-memory expiry memExpiry.
isExpiringSoon(m, memExpiry) ==
    IF memExpiry # Null THEN isExpiringSoonCheck(memExpiry)
    ELSE isExpiringSoonCheck(readStorage(m).expiry)

\* getExpiresIn(): Math.max(0, Math.floor((expiry - Date.now()) / 1000)), or
\* null without an expiry; NaN for an expiry that is NaN.
getExpiresIn(m) ==
    LET expiry == IF memoryExpiry[m] # Null THEN memoryExpiry[m]
                  ELSE readStorage(m).expiry
    IN IF expiry = Null THEN Null
       ELSE IF expiry.t # "num" THEN NaN
       ELSE LET remaining == (expiry.n - now) \div 1000
            IN Num(IF remaining > 0 THEN remaining ELSE 0)

\* setToken(token, expiresIn): Date.now() + expiresIn * 1000
expiryTime(expiresIn) == Num(now + expiresIn * 1000)

\* A variant of ensureAccessToken without the in-flight guard.
RenewalNeverInProgress(m) == FALSE

\* line 135: if (renewalPromise) return renewalPromise
RenewalInProgress(m) == renewalPromise[m] # 0

\* The ensureAccessToken() calls wait on promises; a promise of the renewal
\* IIFE is pending, fulfilled with a value, or rejected.
\*   mgr: its manager; st: its state; val: the value it is fulfilled with;
\*   failures: how often it has invoked onRenewalFailure;
\*   epoch: settled[mgr] when tokenFetcher was invoked.
Attempt(m, st, val, failures) ==
    [mgr |-> m, st |-> st, val |-> val, failures |-> failures, epoch |-> settled[m]]

\* A variant of the renewal IIFE whose catch block rethrows the error.
CatchRenewalErrorRethrows(a) ==
    [a EXCEPT !.st = "rejected", !.val = Null, !.failures = a.failures + 1]

\* catch (error) { onRenewalFailure?.(error); return null; }
\* the promise of the attempt, as the catch block leaves it.
CatchRenewalError(a) ==
    [a EXCEPT !.st = "fulfilled", !.val = Null, !.failures = a.failures + 1]

\* tokenFetcher(), the strategy the application supplies, can
\*   "throw":   throw at the moment it is invoked (a non-async function),
\*   "pending": return a promise, which later resolves or rejects.
FetcherInvocations == {"throw", "pending"}

\* An ensureAccessToken() call: its manager, "waiting" on promise att or settled
\* ("resolved" with val, "rejected"), and what it saw when it was made.
Call(m, st, att, val, renewing) ==
    [mgr |-> m, st |-> st, att |-> att, val |-> val,
     renewing |-> renewing, epoch |-> settled[m]]

GetToken(m) ==
    /\ memoryToken' = [memoryToken EXCEPT ![m] = getTokenMemory(m).token]
    /\ memoryExpiry' = [memoryExpiry EXCEPT ![m] = getTokenMemory(m).expiry]
    /\ <<memoryToken', memoryExpiry'>> # <<memoryToken, memoryExpiry>>
    /\ UNCHANGED <<oaVars, saVars, appVars, reloads>>
    /\ UNCHANGED <<envVars, config, renewalPromise, attempts, calls, settled>>

SetToken(m, token, expiresIn) ==
    /\ memoryToken' = [memoryToken EXCEPT ![m] = Str(token)]
    /\ memoryExpiry' = [memoryExpiry EXCEPT ![m] = expiryTime(expiresIn)]
    /\ sessionStorage' = writeStorage(m, Str(token), expiryTime(expiresIn))
    /\ UNCHANGED <<oaVars, saVars, appVars, reloads>>
    /\ UNCHANGED <<now, ticks, storageAvailable, config, renewalPromise, attempts,
                   calls, settled>>

ClearToken(m) ==
    /\ memoryToken' = [memoryToken EXCEPT ![m] = Null]
    /\ memoryExpiry' = [memoryExpiry EXCEPT ![m] = Null]
    /\ sessionStorage' = clearStorage(m)
    /\ UNCHANGED <<oaVars, saVars, appVars, reloads>>
    /\ UNCHANGED <<now, ticks, storageAvailable, config, renewalPromise, attempts,
                   calls, settled>>

\* ensureAccessToken(), up to its return (the renewal IIFE runs synchronously
\* up to `await tokenFetcher()`; when tokenFetcher throws there, the catch and
\* the finally block run before the IIFE's promise is assigned).
EnsureAccessToken(m, invocation) ==
    /\ Len(calls) < MaxCalls
    /\ LET currentToken == getToken(m)
           mem == getTokenMemory(m)
           id == Len(attempts) + 1
       IN /\ memoryToken' = [memoryToken EXCEPT ![m] = mem.token]
          /\ memoryExpiry' = [memoryExpiry EXCEPT ![m] = mem.expiry]
          /\ IF Truthy(currentToken) /\ ~isExpiringSoon(m, mem.expiry)
             THEN /\ invocation = "pending"
                  /\ calls' = Append(calls, Call(m, "resolved", 0, currentToken, FALSE))
                  /\ UNCHANGED <<renewalPromise, attempts, settled>>
             ELSE IF ~config[m].tokenFetcher
             THEN /\ invocation = "pending"
                  /\ calls' = Append(calls, Call(m, "resolved", 0, currentToken, FALSE))
                  /\ UNCHANGED <<renewalPromise, attempts, settled>>
             ELSE IF RenewalInProgress(m)
             THEN /\ invocation = "pending"
                  /\ calls' = Append(calls, Call(m, "waiting", renewalPromise[m], Null, TRUE))
                  /\ UNCHANGED <<renewalPromise, attempts, settled>>
             ELSE /\ calls' = Append(calls, Call(m, "waiting", id, Null, TRUE))
                  /\ renewalPromise' = [renewalPromise EXCEPT ![m] = id]
                  /\ IF invocation = "throw"
                     THEN /\ attempts' = Append(attempts,
                                 CatchRenewalError(Attempt(m, "pending", Null, 0)))
                          /\ settled' = [settled EXCEPT ![m] = @ + 1]
                     ELSE /\ attempts' = Append(attempts, Attempt(m, "pending", Null, 0))
                          /\ UNCHANGED settled
    /\ UNCHANGED <<oaVars, saVars, appVars, reloads>>
    /\ UNCHANGED <<envVars, config>>

\* The promise tokenFetcher() returned resolves with a token response: the rest
\* of the try block, then the finally block.
FetchResolves(id, token, expiresIn) ==
    /\ id \in 1..Len(attempts)
    /\ attempts[id].st = "pending"
    /\ LET m == attempts[id].mgr
       IN /\ memoryToken' = [memoryToken EXCEPT ![m] = Str(token)]
          /\ memoryExpiry' = [memoryExpiry EXCEPT ![m] = expiryTime(expiresIn)]
          /\ sessionStorage' = writeStorage(m, Str(token), expiryTime(expiresIn))
          /\ attempts' = [attempts EXCEPT ![id].st = "fulfilled", ![id].val = Str(token)]
          /\ renewalPromise' = [renewalPromise EXCEPT ![m] = 0]
          /\ settled' = [settled EXCEPT ![m] = @ + 1]
    /\ UNCHANGED <<oaVars, saVars, appVars, reloads>>
    /\ UNCHANGED <<now, ticks, storageAvailable, config, calls>>

\* A variant of the failing renewal whose catch block also calls clearToken().
FetchFailsClears(id) ==
    /\ id \in 1..Len(attempts)
    /\ attempts[id].st = "pending"
    /\ LET m == attempts[id].mgr
       IN /\ attempts' = [attempts EXCEPT ![id] = CatchRenewalError(attempts[id])]
          /\ renewalPromise' = [renewalPromise EXCEPT ![m] = 0]
          /\ settled' = [settled EXCEPT ![m] = @ + 1]
          /\ memoryToken' = [memoryToken EXCEPT ![m] = Null]
          /\ memoryExpiry' = [memoryExpiry EXCEPT ![m] = Null]
          /\ sessionStorage' = clearStorage(m)
    /\ UNCHANGED <<oaVars, saVars, appVars, reloads>>
    /\ UNCHANGED <<now, ticks, storageAvailable, config, calls>>

\* The promise tokenFetcher() returned rejects, or resolves with no response
\* object (reading response.access_token throws): the catch block, then the
\* finally block.
FetchFails(id) ==
    /\ id \in 1..Len(attempts)
    /\ attempts[id].st = "pending"
    /\ LET m == attempts[id].mgr
       IN /\ attempts' = [attempts EXCEPT ![id] = CatchRenewalError(attempts[id])]
          /\ renewalPromise' = [renewalPromise EXCEPT ![m] = 0]
          /\ settled' = [settled EXCEPT ![m] = @ + 1]
    /\ UNCHANGED <<oaVars, saVars, appVars, reloads>>
    /\ UNCHANGED <<envVars, config, memoryToken, memoryExpiry, calls>>

\* A waiting ensureAccessToken() call resumes once its promise has settled.
CallResumes(c) ==
    /\ c \in 1..Len(calls)
    /\ calls[c].st = "waiting"
    /\ attempts[calls[c].att].st # "pending"
    /\ calls' = [calls EXCEPT
                   ![c].st = IF attempts[calls[c].att].st = "fulfilled"
                             THEN "resolved" ELSE "rejected",
                   ![c].val = attempts[calls[c].att].val]
    /\ UNCHANGED <<oaVars, saVars, appVars, reloads>>
    /\ UNCHANGED <<envVars, config, memoryToken, memoryExpiry, renewalPromise,
                   attempts, settled>>

\* At most this many page reloads in one behaviour.
MaxReloads == 1

\* The page is reloaded: every Token Manager is created anew (nothing in
\* memory, no renewal in progress), sessionStorage stays, and what was running
\* on the old page (a fetch, a waiting call) is gone.
Reload ==
    /\ reloads < MaxReloads
    /\ reloads' = reloads + 1
    /\ memoryToken' = [m \in Stores |-> Null]
    /\ memoryExpiry' = [m \in Stores |-> Null]
    /\ renewalPromise' = [m \in Stores |-> 0]
    /\ attempts' = [i \in 1..Len(attempts) |->
                       IF attempts[i].st = "pending"
                       THEN [attempts[i] EXCEPT !.st = "dropped"] ELSE attempts[i]]
    /\ calls' = [c \in 1..Len(calls) |->
                    IF calls[c].st = "waiting"
                    THEN [calls[c] EXCEPT !.st = "dropped"] ELSE calls[c]]
    /\ UNCHANGED <<envVars, config, settled, oaVars, saVars, appVars>>

----------------------------------------------------------------------------
(* OAuth flow client (oauth.js) and the useOAuth hook *)

\* STORAGE_KEYS.STATE and STORAGE_KEYS.RETURN_PATH
STATE_KEY == "homelocal_oauth_state"
RETURN_PATH_KEY == "homelocal_oauth_return_path"

\* generateOAuthState(): 32 random bytes in hex.  Hex(k) is the string the
\* k-th call returned; distinct calls return distinct strings.  Hex(0) is a
\* hex string no call has returned.
Hex(k) == [t |-> "hex", s |-> "", n |-> k]

\* The `state` query parameter of a callback URL:
\*   "none":    absent or empty
\*   "hex":     the string Hex(n)
\*   "reg":     base64 of the JSON {type: "registration", ts, returnUrl}
\*              (returnUrl Null: the token carries none)
\*   "json":    base64 of the JSON of another object
\*   "expired": base64 of the text `expired`, which is not JSON
StateParam(kind, n, ts, returnUrl) ==
    [kind |-> kind, n |-> n, ts |-> ts, returnUrl |-> returnUrl]
NoState == StateParam("none", 0, 0, Null)

\* The string value of a state parameter, as validateState compares it: a
\* base64 text never equals a string of hex digits of the same length.
StateString(p) ==
    IF p.kind = "hex" THEN Hex(p.n)
    ELSE IF p.kind = "none" THEN Null
    ELSE Str(p.kind)

\* window.location.search, as URLSearchParams
Query(error, code, state) == [error |-> error, code |-> code, state |-> state]
NoQuery == Query(Null, Null, NoState)

\* parseOAuthCallback(searchParams): {error} or {code, state}
parseOAuthCallback(q) ==
    IF Truthy(q.error) THEN Query(q.error, Null, NoState)
    ELSE Query(Null, q.code, q.state)

\* isRegistrationState(JSON.parse(atob(state)))
isRegistrationState(p) == p.kind = "reg"

\* JSON.parse(atob(state)) throws a SyntaxError whose message contains the
\* word `expired`: the state decodes to a text that is not JSON and contains
\* the word, and the engine quotes the text in the message (V8 does:
\* Unexpected token 'e', "expired" is not valid JSON).
ParseErrorSaysExpired(p) == p.kind = "expired" /\ engineQuotes

\* A variant of the expiry check that also rejects timestamps in the future.
RegistrationExpiredBothWays(age) == age > 120000 \/ age < -120000

\* A variant of the expiry check that rejects an age of exactly 120000 ms.
RegistrationExpiredInclusive(age) == age >= 120000

\* if (age > 120000), with age = Date.now() - decodedState.ts
RegistrationExpired(age) == age > 120000

\* A variant of validateState that only checks that a state is stored.
validateStateAnyStored(storage, returnedState) == storage[STATE_KEY] # Null

\* validateState(returnedState)
validateState(storage, returnedState) ==
    LET storedState == storage[STATE_KEY]
    IN storedState # Null /\ storedState = StateString(returnedState)

\* A variant of clearState that removes nothing.
clearStateKeeps(storage) == storage

\* clearState(): sessionStorage afterwards
clearState(storage) == [storage EXCEPT ![STATE_KEY] = Null]

\* A variant of getReturnPath that returns what is stored, without a default.
getReturnPathNoDefault(storage) == storage[RETURN_PATH_KEY]

\* getReturnPath(): the path it returns; it also removes the stored one.
getReturnPath(storage) ==
    LET path == storage[RETURN_PATH_KEY] IN IF Truthy(path) THEN path ELSE Str("/")

\* An invocation of handleCallback() (by OAuthCallbackPage.processCallback or
\* by the application):
\*   pc:    "exchanging" (awaiting exchangeCode), "succeeded", "failed"
\*   flow:  "registration" (CSRF-exempt) or "standard"
\*   err:   the error it threw: "error" (error parameter), "missing",
\*          "expired" (registration link expired), "syntax" (the rethrown
\*          SyntaxError), "csrf", "exchange", or "" for none
\*   mounted: processCallback's flag; returnPath: what getReturnPath() gave it
Invocation(pc, flow, err) ==
    [pc |-> pc, flow |-> flow, err |-> err, mounted |-> TRUE, returnPath |-> Null]

\* handleCallback() up to `await oauthClient.exchangeCode(code)` or its throw:
\* the invocation and sessionStorage as it leaves them.
handleCallback(q) ==
    LET p == parseOAuthCallback(q)
        age == now - p.state.ts
        withReturnUrl ==
            IF build = "js" /\ Truthy(p.state.returnUrl)
            THEN [sessionStorage EXCEPT ![RETURN_PATH_KEY] = p.state.returnUrl]
            ELSE sessionStorage
    IN IF Truthy(p.error)
       THEN [inv |-> Invocation("failed", "standard", "error"),
             storage |-> clearState(sessionStorage)]
       ELSE IF ~Truthy(p.code) \/ p.state.kind = "none"
       THEN [inv |-> Invocation("failed", "standard", "missing"),
             storage |-> clearState(sessionStorage)]
       ELSE IF isRegistrationState(p.state)
       THEN IF RegistrationExpired(age)
            THEN [inv |-> Invocation("failed", "registration", "expired"),
                  storage |-> clearState(sessionStorage)]
            ELSE [inv |-> Invocation("exchanging", "registration", ""),
                  storage |-> withReturnUrl]
       ELSE IF ParseErrorSaysExpired(p.state)
       THEN [inv |-> Invocation("failed", "standard", "syntax"),
             storage |-> sessionStorage]
       ELSE IF ~validateState(sessionStorage, p.state)
       THEN [inv |-> Invocation("failed", "standard", "csrf"),
             storage |-> clearState(sessionStorage)]
       ELSE [inv |-> Invocation("exchanging", "standard", ""),
             storage |-> sessionStorage]

\* Bounds of the OAuth model
MaxLogins == 2
MaxNavs == 2
MaxInv == 2

\* The callback URLs a browser can be sent to at this moment: by the
\* authorization server after a login, by a registration link of the auth
\* frontend, by a replayed or forged link.
ReturnUrls == {Null, Str("/x")}
Timestamps ==
    {now - 200000, now - 120001, now - 120000, now - 30000, now + 200000,
     (now \div 1000) - 30}
StateParams ==
    {StateParam("hex", k, 0, Null) : k \in 0..logins}
    \cup {StateParam("reg", 0, ts, r) : ts \in Timestamps, r \in ReturnUrls}
    \cup {StateParam("json", 0, 0, Null), StateParam("expired", 0, 0, Null), NoState}
Queries ==
    {Query(Null, Str("code"), p) : p \in StateParams}
    \cup {Query(Str("access_denied"), Null, NoState),
          Query(Str("access_denied"), Str("code"), StateParam("hex", logins, 0, Null)),
          Query(Null, Null, StateParam("hex", logins, 0, Null))}

\* initiateLogin({returnPath}): persists a fresh state and the return path,
\* then leaves the page for the authorization endpoint (whatever was running
\* on the page is gone).
InitiateLogin(returnPath) ==
    /\ logins < MaxLogins
    /\ logins' = logins + 1
    /\ sessionStorage' =
          [[sessionStorage EXCEPT ![STATE_KEY] = Hex(logins + 1)]
               EXCEPT ![RETURN_PATH_KEY] =
                   IF Truthy(returnPath) THEN returnPath ELSE Str("/current")]
    /\ query' = NoQuery
    /\ inv' = <<>>
    /\ passed' = 0
    /\ completed' = Null
    /\ UNCHANGED <<now, ticks, storageAvailable, tmVars, appVars, saVars, build, engineQuotes, navs,
                   exchanges>>

\* The browser loads a callback URL: a new page.
NavigateCallback(q) ==
    /\ navs < MaxNavs
    /\ navs' = navs + 1
    /\ query' = q
    /\ inv' = <<>>
    /\ UNCHANGED <<envVars, tmVars, appVars, saVars, build, engineQuotes, logins, passed, completed,
                   exchanges>>

\* handleCallback() is invoked and runs to its first await or its throw.
StartCallback ==
    /\ Len(inv) < MaxInv
    /\ LET r == handleCallback(query)
       IN /\ inv' = Append(inv, r.inv)
          /\ sessionStorage' = r.storage
          /\ passed' = IF r.inv.pc = "exchanging" /\ r.inv.flow = "standard"
                       THEN passed + 1 ELSE passed
          /\ exchanges' = IF r.inv.pc = "exchanging" THEN exchanges + 1 ELSE exchanges
    /\ UNCHANGED <<now, ticks, storageAvailable, tmVars, appVars, saVars, build, engineQuotes, query,
                   logins, navs, completed>>

\* The token request of invocation i settles: the rest of handleCallback(),
\* then (on success, if still mounted) processCallback's getReturnPath().
ExchangeSettles(i, ok) ==
    /\ i \in 1..Len(inv)
    /\ inv[i].pc = "exchanging"
    /\ LET cleared == clearState(sessionStorage)
           reads == ok /\ inv[i].mounted
       IN /\ inv' = [inv EXCEPT
                       ![i].pc = IF ok THEN "succeeded" ELSE "failed",
                       ![i].err = IF ok THEN "" ELSE "exchange",
                       ![i].returnPath = IF reads THEN getReturnPath(cleared) ELSE Null]
          /\ sessionStorage' =
                IF reads THEN [cleared EXCEPT ![RETURN_PATH_KEY] = Null] ELSE cleared
    /\ completed' = IF inv[i].flow = "standard" THEN StateString(query.state) ELSE completed
    /\ UNCHANGED <<now, ticks, storageAvailable, tmVars, appVars, saVars, build, engineQuotes, query,
                   logins, navs, passed, exchanges>>

\* The cleanup of OAuthCallbackPage's effect (a re-run of the effect, or the
\* unmount): mounted = false for the invocations made so far.
EffectCleanup ==
    /\ \E i \in 1..Len(inv) : inv[i].mounted /\ inv[i].pc = "exchanging"
    /\ inv' = [i \in 1..Len(inv) |-> [inv[i] EXCEPT !.mounted = FALSE]]
    /\ UNCHANGED <<envVars, tmVars, appVars, saVars, build, engineQuotes, query, logins, navs, passed,
                   completed, exchanges>>

\* getReturnPath(), called by the application.
GetReturnPath ==
    /\ sessionStorage[RETURN_PATH_KEY] # Null
    /\ sessionStorage' = [sessionStorage EXCEPT ![RETURN_PATH_KEY] = Null]
    /\ UNCHANGED <<now, ticks, storageAvailable, tmVars, appVars, saVars, oaVars>>

----------------------------------------------------------------------------
(* Silent authentication (silentAuth.js, trySilentAuth) *)

\* At most this many trySilentAuth() attempts in one behaviour.
MaxAttempts == 2
\* At most this many message events are dispatched on window.
MaxMessages == 2
MaxOps == 2          \* login() and logout() calls
MaxRequests == 2     \* requests through the authenticated client
MaxRuns == 3         \* runs of the polling effect

\* config.authServiceUrl as `new URL(...)` sees it: an absolute URL, which has
\* an origin, or a string that is no absolute URL, for which new URL() throws.
Url(valid, origin, path) == [valid |-> valid, origin |-> origin, path |-> path]
AuthServiceUrls ==
    {Url(TRUE, "https://auth.example", ""),
     Url(TRUE, "https://auth.example", "/v1"),
     Url(FALSE, "", "/auth")}

\* The origins a message event can come from: the auth service, another site.
Origins == {"https://auth.example", "https://other.example"}

\* window.location.origin of the page that calls trySilentAuth()
parentOrigin == "https://app.example"

\* config.timeout ?? 5000
timeoutOf(cfgTimeout) == IF cfgTimeout = Null THEN 5000 ELSE cfgTimeout.n

\* generateState(): 16 random bytes in hex; the k-th call returns
\* generateState(k), distinct calls return distinct strings, and
\* generateState(0) is a string no call has returned.
generateState(k) == [t |-> "hex16", s |-> "", n |-> k]

\* encodeState(originalState, origin): base64 of the JSON {state, origin}
encodeState(originalState, origin) == [t |-> "b64", s |-> origin, n |-> originalState.n]

\* event.data of a message event: an object {type, state, code, error}, or a
\* value that is no object (object = FALSE).
Data(object, type, state, code, error) ==
    [object |-> object, type |-> type, state |-> state, code |-> code, error |-> error]

\* A message event: its origin and its data.
MessageEvt(origin, data) == [origin |-> origin, data |-> data]

\* isSilentCallbackMessage(data)
isSilentCallbackMessage(data) == data.object /\ data.type = "iriai_silent_auth_callback"

\* The value of the promise trySilentAuth() returned: pending, or resolved
\* with {success, code, error, state}.
Pending == [st |-> "pending", success |-> FALSE, code |-> Null, error |-> Null, state |-> Null]
Resolved(success, code, error, state) ==
    [st |-> "resolved", success |-> success, code |-> code, error |-> error, state |-> state]

\* One trySilentAuth() call, after its executor has run:
\*   authServiceUrl, cfgTimeout: its configuration; timeout: the timer's delay
\*   originalState: the generated state
\*   resolved:  the flag `resolved`
\*   listener:  handleMessage is attached to window
\*   iframe:    the iframe is in the document
\*   timer:     "pending", "fired" or "cleared" (clearTimeout)
\*   errored:   the iframe's error event has fired
\*   result:    the promise; resolves: how often resolve() has been called
\*   cleanups:  how often cleanup() has run
\*   heard:     how often handleMessage has been invoked
SilentAttempt(authServiceUrl, cfgTimeout, k) ==
    [authServiceUrl |-> authServiceUrl, cfgTimeout |-> cfgTimeout,
     timeout |-> timeoutOf(cfgTimeout), originalState |-> generateState(k),
     resolved |-> FALSE, listener |-> TRUE, iframe |-> TRUE, timer |-> "pending",
     errored |-> FALSE, result |-> Pending, resolves |-> 0, cleanups |-> 0, heard |-> 0]

\* cleanup()
cleanup(a) == [a EXCEPT !.listener = FALSE, !.iframe = FALSE, !.cleanups = @ + 1]

\* resolve(value): a promise keeps the value it was first resolved with.
resolve(a, value) ==
    [a EXCEPT !.result = IF a.result.st = "pending" THEN value ELSE a.result,
              !.resolves = @ + 1]

\* A variant of the origin check that accepts every origin.
originMatchesAny(e, a) == TRUE

\* event.origin === new URL(config.authServiceUrl).origin
originMatches(e, a) == e.origin = a.authServiceUrl.origin

\* A variant of the state check that accepts the encoded state as well.
stateMatchesEncoded(e, a) ==
    e.data.state = a.originalState \/ e.data.state = encodeState(a.originalState, parentOrigin)

\* event.data.state === originalState
stateMatches(e, a) == e.data.state = a.originalState

\* handleMessage(event): the attempt as it leaves it.  When authServiceUrl is
\* no absolute URL, new URL() throws and the handler ends there.
handleMessage(a, e) ==
    LET h == [a EXCEPT !.heard = @ + 1]
    IN IF ~a.authServiceUrl.valid THEN h
       ELSE IF ~originMatches(e, a) THEN h
       ELSE IF ~isSilentCallbackMessage(e.data) THEN h
       ELSE IF ~stateMatches(e, a) THEN h
       ELSE resolve(cleanup([h EXCEPT !.resolved = TRUE]),
                    IF Truthy(e.data.code)
                    THEN Resolved(TRUE, e.data.code, Null, e.data.state)
                    ELSE Resolved(FALSE, Null, e.data.error, e.data.state))

\* A variant of the timer callback that acts whatever the flag says.
timerGuardAlways(a) == TRUE

\* A variant of the timer callback that never acts.
timerGuardNever(a) == FALSE

\* the timer callback's `if (!resolved)`
timerGuard(a) == ~a.resolved

\* The message events that can be dispatched on window at this moment: from
\* either origin, with data that is no object, that carries another tag, or
\* that carries the tag with a state (generated by an attempt, its encoded
\* form, or any other string) and a code, an error or neither.
States ==
    {generateState(k) : k \in 0..Len(silent)}
    \cup {encodeState(generateState(k), parentOrigin) : k \in 1..Len(silent)}
Payloads ==
    {Data(FALSE, "", Null, Null, Null)}
    \cup {Data(TRUE, "other", st, Str("code"), Null) : st \in States}
    \cup {Data(TRUE, "iriai_silent_auth_callback", st, c[1], c[2]) :
             st \in States,
             c \in {<<Str("code"), Null>>, <<Null, Str("login_required")>>, <<Null, Null>>}}
Messages == {MessageEvt(o, d) : o \in Origins, d \in Payloads}

\* trySilentAuth(config), the executor of its promise.
TrySilentAuth(authServiceUrl, cfgTimeout) ==
    /\ Len(silent) < MaxAttempts
    /\ silent' = Append(silent, SilentAttempt(authServiceUrl, cfgTimeout, Len(silent) + 1))
    /\ UNCHANGED <<envVars, tmVars, appVars, oaVars, delivered>>

\* A message event is dispatched on window: every attached handleMessage runs.
MessageEvent(e) ==
    /\ delivered < MaxMessages
    /\ \E i \in 1..Len(silent) : silent[i].listener
    /\ delivered' = delivered + 1
    /\ silent' = [i \in 1..Len(silent) |->
                    IF silent[i].listener
                    THEN handleMessage(silent[i], e)
                    ELSE silent[i]]
    /\ UNCHANGED <<envVars, tmVars, appVars, oaVars>>

\* The timer of attempt i fires.
TimerFires(i) ==
    /\ i \in 1..Len(silent)
    /\ silent[i].timer = "pending"
    /\ LET a == [silent[i] EXCEPT !.timer = "fired"]
       IN silent' = [silent EXCEPT ![i] =
             IF timerGuard(a)
             THEN resolve(cleanup([a EXCEPT !.resolved = TRUE]),
                          Resolved(FALSE, Null, Str("timeout"), Null))
             ELSE a]
    /\ UNCHANGED <<envVars, tmVars, appVars, oaVars, delivered>>

\* The error event of the iframe of attempt i fires: iframe.onerror
IframeError(i) ==
    /\ i \in 1..Len(silent)
    /\ ~silent[i].errored
    /\ LET a == [silent[i] EXCEPT !.errored = TRUE]
       IN silent' = [silent EXCEPT ![i] =
             IF ~a.resolved
             THEN resolve(cleanup([a EXCEPT !.resolved = TRUE,
                                            !.timer = IF @ = "pending" THEN "cleared" ELSE @]),
                          Resolved(FALSE, Null, Str("iframe_error"), Null))
             ELSE a]
    /\ UNCHANGED <<envVars, tmVars, appVars, oaVars, delivered>>

----------------------------------------------------------------------------
(* The orchestrator (AuthProvider.js): mount-time check, login, logout *)

\* The user that the session of the browser belongs to (what /auth/me and the
\* BFF's user-info endpoint return) and the user of a login response.
SessionUser == Str("userA")
LoginUser == Str("userB")

\* The configurations: direct mode; mode 'bff' without a bff object (handled
\* as direct mode); mode 'bff' with a bff object, whose enableSilentAuth may
\* be false and whose logoutUrl is optional (BffConfig, roles.ts).
AuthConfigs ==
    {[mode |-> "direct", bff |-> FALSE, enableSilentAuth |-> FALSE, logoutUrl |-> FALSE],
     [mode |-> "bff", bff |-> FALSE, enableSilentAuth |-> FALSE, logoutUrl |-> FALSE]}
    \cup {[mode |-> "bff", bff |-> TRUE, enableSilentAuth |-> s, logoutUrl |-> l] :
             s \in BOOLEAN, l \in BOOLEAN}

\* config.mode === 'bff' && config.bff
BffMode == authConfig.mode = "bff" /\ authConfig.bff

\* login()'s test for the redirect: config.mode === 'bff' && config.bff
loginRedirects == BffMode

\* A variant of logout()'s test that asks for the bff object only.
logoutRedirectsWithBff == BffMode

\* logout()'s test for the redirect: config.mode === 'bff' &&
\* config.bff?.logoutUrl
logoutRedirects == BffMode /\ authConfig.logoutUrl

\* A variant of setToken that stores nothing.
setTokenSkipped(m, token, expiresIn) ==
    UNCHANGED <<memoryToken, memoryExpiry, sessionStorage>>

\* tokenManager.setToken(token, expiresIn)
setToken(m, token, expiresIn) ==
    /\ memoryToken' = [memoryToken EXCEPT ![m] = Str(token)]
    /\ memoryExpiry' = [memoryExpiry EXCEPT ![m] = expiryTime(expiresIn)]
    /\ sessionStorage' = writeStorage(m, Str(token), expiryTime(expiresIn))

\* A variant of clearToken that forgets the cache and keeps the persisted copy.
clearTokenCacheOnly(m) ==
    /\ memoryToken' = [memoryToken EXCEPT ![m] = Null]
    /\ memoryExpiry' = [memoryExpiry EXCEPT ![m] = Null]
    /\ sessionStorage' = sessionStorage

\* tokenManager.clearToken()
clearToken(m) ==
    /\ memoryToken' = [memoryToken EXCEPT ![m] = Null]
    /\ memoryExpiry' = [memoryExpiry EXCEPT ![m] = Null]
    /\ sessionStorage' = clearStorage(m)

\* What no step of the orchestrator changes.
apFrame ==
    UNCHANGED <<now, ticks, storageAvailable, config, renewalPromise, attempts, calls,
                settled, reloads, oaVars, saVars, axVars, etVars, authConfig,
                quotaExceeded>>

\* The outcomes of the BFF's token exchange and of its user-info endpoint
\* ("badJson": a 2xx response whose body is not JSON).
ExchangeOutcomes == {"ok", "non2xx", "network"}
UserInfoOutcomes == {"ok", "badJson", "401", "500", "network"}

\* A variant in which a failed token exchange is thrown to checkAuth's catch.
exchangeFailsFast(outcome) == outcome = "ok"

\* checkAuth's inner try/catch around the token exchange: whatever the
\* outcome, the check goes on to the user-info endpoint.
exchangeContinues(outcome) == TRUE

\* A variant of refreshUserFromBFF that takes every response for a user.
refreshUserFromBFFAnyResponse(outcome) ==
    IF outcome = "network" THEN Null ELSE SessionUser

\* refreshUserFromBFF(): the user of a 2xx response; null on 401, on another
\* status and when fetch or response.json() throws.
refreshUserFromBFF(outcome) == IF outcome = "ok" THEN SessionUser ELSE Null

\* A variant of checkAuth's finally block that leaves isLoading as it is.
loadingAfterCheckKept == isLoading

\* checkAuth's finally block: setIsLoading(false)
loadingAfterCheck == FALSE

\* The mount-time check before it has run.
CheckAtMount ==
    [pc |-> "mount", silentAuth |-> "none", exchange |-> "none", userInfo |-> "none"]

\* checkAuth() up to its first await: trySilentAuth() or the user-info request
\* in BFF mode, the current-user request in direct mode.
CheckAuth ==
    /\ check.pc = "mount"
    /\ IF BffMode
       THEN IF authConfig.enableSilentAuth
            THEN /\ check' = [check EXCEPT !.pc = "silent", !.silentAuth = "pending"]
                 /\ fetches' = Append(fetches, "/oauth/authorize")
            ELSE /\ check' = [check EXCEPT !.pc = "userinfo", !.userInfo = "pending"]
                 /\ fetches' = Append(fetches, "bff/userinfo")
       ELSE /\ check' = [check EXCEPT !.pc = "currentUser"]
            /\ fetches' = Append(fetches, "/auth/me")
    /\ UNCHANGED <<user, isLoading, authError, ops, href, memoryToken, memoryExpiry,
                   sessionStorage>>
    /\ apFrame

\* trySilentAuth() resolves: with a code (the token exchange is requested) or
\* without one (the user-info endpoint is requested).
SilentAuthSettles(result) ==
    /\ check.pc = "silent"
    /\ IF result = "code"
       THEN /\ check' = [check EXCEPT !.pc = "exchange", !.silentAuth = result,
                                      !.exchange = "pending"]
            /\ fetches' = Append(fetches, "bff/exchange")
       ELSE /\ check' = [check EXCEPT !.pc = "userinfo", !.silentAuth = result,
                                      !.userInfo = "pending"]
            /\ fetches' = Append(fetches, "bff/userinfo")
    /\ UNCHANGED <<user, isLoading, authError, ops, href, memoryToken, memoryExpiry,
                   sessionStorage>>
    /\ apFrame

\* The token exchange settles; the user-info endpoint is requested.
TokenExchangeSettles(outcome) ==
    /\ check.pc = "exchange"
    /\ IF exchangeContinues(outcome)
       THEN /\ check' = [check EXCEPT !.pc = "userinfo", !.exchange = outcome,
                                      !.userInfo = "pending"]
            /\ fetches' = Append(fetches, "bff/userinfo")
            /\ UNCHANGED <<user, isLoading, memoryToken, memoryExpiry, sessionStorage>>
       ELSE /\ check' = [check EXCEPT !.pc = "done", !.exchange = outcome]
            /\ fetches' = fetches
            /\ user' = Null
            /\ clearToken("provider")
            /\ isLoading' = loadingAfterCheck
    /\ UNCHANGED <<authError, ops, href>>
    /\ apFrame

\* The user-info request settles: setUser(userData), then the finally block.
UserInfoSettles(outcome) ==
    /\ check.pc = "userinfo"
    /\ check' = [check EXCEPT !.pc = "done", !.userInfo = outcome]
    /\ user' = refreshUserFromBFF(outcome)
    /\ isLoading' = loadingAfterCheck
    /\ UNCHANGED <<authError, ops, fetches, href, memoryToken, memoryExpiry, sessionStorage>>
    /\ apFrame

\* authApi.getCurrentUser() settles.  Fulfilled: setUser(currentUser) and the
\* refresh-token exchange is requested.  Rejected: the catch block
\* (setUser(null), clearToken()), then the finally block.
CurrentUserSettles(ok) ==
    /\ check.pc = "currentUser"
    /\ IF ok
       THEN /\ check' = [check EXCEPT !.pc = "refresh"]
            /\ user' = SessionUser
            /\ fetches' = Append(fetches, "/oauth/token")
            /\ UNCHANGED <<isLoading, memoryToken, memoryExpiry, sessionStorage>>
       ELSE /\ check' = [check EXCEPT !.pc = "done"]
            /\ user' = Null
            /\ clearToken("provider")
            /\ isLoading' = loadingAfterCheck
            /\ fetches' = fetches
    /\ UNCHANGED <<authError, ops, href>>
    /\ apFrame

\* The refresh-token exchange of the check settles: setToken() when it
\* succeeded, a warning when it failed; then the finally block.
CheckRefreshSettles(ok) ==
    /\ check.pc = "refresh"
    /\ check' = [check EXCEPT !.pc = "done"]
    /\ IF ok THEN setToken("provider", "tokA", 3600)
       ELSE UNCHANGED <<memoryToken, memoryExpiry, sessionStorage>>
    /\ isLoading' = loadingAfterCheck
    /\ UNCHANGED <<user, authError, ops, fetches, href>>
    /\ apFrame

\* A call of login() or logout():
\*   kind: "login" | "logout" | "refreshUser" | "refreshToken"
\*   pc:   "login" (awaiting authApi.login), "refresh" (awaiting the
\*         refresh-token exchange), "logout" (awaiting authApi.logout),
\*         "resolved", "rejected"
\*   user: the user of the login response, once it is there
\*   redirected: the call assigned window.location.href and returned
\*   outcome: how the request it awaited last ended ("none", "ok", "failed"):
\*         the refresh-token exchange of a login, the endpoint of a logout
Op(kind, pc, redirected) ==
    [kind |-> kind, pc |-> pc, user |-> Null, redirected |-> redirected,
     outcome |-> "none"]

\* login(credentials) up to its first await.
Login ==
    /\ Len(ops) < MaxOps
    /\ IF loginRedirects
       THEN /\ href' = "bff/login"
            /\ ops' = Append(ops, Op("login", "resolved", TRUE))
            /\ UNCHANGED <<authError, isLoading, fetches>>
       ELSE /\ authError' = Null
            /\ isLoading' = TRUE
            /\ fetches' = Append(fetches, "/auth/login")
            /\ ops' = Append(ops, Op("login", "login", FALSE))
            /\ href' = href
    /\ UNCHANGED <<user, check, memoryToken, memoryExpiry, sessionStorage>>
    /\ apFrame

\* authApi.login() settles.  Fulfilled: the refresh-token exchange is
\* requested.  Rejected: setError(message), the error is thrown again, and the
\* finally block sets isLoading to false.
LoginSettles(i, ok) ==
    /\ i \in 1..Len(ops)
    /\ ops[i].pc = "login"
    /\ IF ok
       THEN /\ ops' = [ops EXCEPT ![i].pc = "refresh", ![i].user = LoginUser]
            /\ fetches' = Append(fetches, "/oauth/token")
            /\ UNCHANGED <<authError, isLoading>>
       ELSE /\ ops' = [ops EXCEPT ![i].pc = "rejected"]
            /\ authError' = Str("Login failed")
            /\ isLoading' = FALSE
            /\ fetches' = fetches
    /\ UNCHANGED <<user, check, href, memoryToken, memoryExpiry, sessionStorage>>
    /\ apFrame

\* The refresh-token exchange of login() settles: setToken() when it
\* succeeded, console.error when it failed; then setUser(response.user) and
\* the finally block.
LoginRefreshSettles(i, ok) ==
    /\ i \in 1..Len(ops)
    /\ ops[i].pc = "refresh"
    /\ IF ok THEN setToken("provider", "tokB", 3600)
       ELSE UNCHANGED <<memoryToken, memoryExpiry, sessionStorage>>
    /\ user' = ops[i].user
    /\ isLoading' = FALSE
    /\ ops' = [ops EXCEPT ![i].pc = "resolved",
                          ![i].outcome = IF ok THEN "ok" ELSE "failed"]
    /\ UNCHANGED <<authError, check, fetches, href>>
    /\ apFrame

\* logout() up to its first await.
Logout ==
    /\ Len(ops) < MaxOps
    /\ IF logoutRedirects
       THEN /\ href' = "bff/logout"
            /\ ops' = Append(ops, Op("logout", "resolved", TRUE))
            /\ UNCHANGED <<authError, fetches>>
       ELSE /\ authError' = Null
            /\ fetches' = Append(fetches, "/auth/logout")
            /\ ops' = Append(ops, Op("logout", "logout", FALSE))
            /\ href' = href
    /\ UNCHANGED <<user, isLoading, check, memoryToken, memoryExpiry, sessionStorage>>
    /\ apFrame

\* authApi.logout() settles: setError(message) when it failed; then the
\* finally block, setUser(null) and clearToken().
LogoutSettles(i, ok) ==
    /\ i \in 1..Len(ops)
    /\ ops[i].pc = "logout"
    /\ authError' = IF ok THEN authError ELSE Str("Logout failed")
    /\ user' = Null
    /\ clearToken("provider")
    /\ ops' = [ops EXCEPT ![i].pc = "resolved",
                          ![i].outcome = IF ok THEN "ok" ELSE "failed"]
    /\ UNCHANGED <<isLoading, check, fetches, href>>
    /\ apFrame

\* refreshUser() up to its await: authApi.getCurrentUser() is requested.
RefreshUser ==
    /\ Len(ops) < MaxOps
    /\ ops' = Append(ops, Op("refreshUser", "refreshUser", FALSE))
    /\ fetches' = Append(fetches, "/auth/me")
    /\ UNCHANGED <<user, isLoading, authError, check, href, memoryToken, memoryExpiry,
                   sessionStorage>>
    /\ apFrame

\* The request of refreshUser() settles: setUser(updatedUser) when it
\* succeeded; a failure is logged and refreshUser() resolves to null.
RefreshUserSettles(i, ok) ==
    /\ i \in 1..Len(ops)
    /\ ops[i].pc = "refreshUser"
    /\ user' = IF ok THEN SessionUser ELSE user
    /\ ops' = [ops EXCEPT ![i].pc = "resolved",
                          ![i].outcome = IF ok THEN "ok" ELSE "failed"]
    /\ UNCHANGED <<isLoading, authError, check, fetches, href, memoryToken, memoryExpiry,
                   sessionStorage>>
    /\ apFrame

\* refreshToken() up to its await: the refresh-token exchange is requested.
RefreshToken ==
    /\ Len(ops) < MaxOps
    /\ ops' = Append(ops, Op("refreshToken", "refreshToken", FALSE))
    /\ fetches' = Append(fetches, "/oauth/token")
    /\ UNCHANGED <<user, isLoading, authError, check, href, memoryToken, memoryExpiry,
                   sessionStorage>>
    /\ apFrame

\* The exchange of refreshToken() settles: setToken() when it succeeded; a
\* failure is logged and thrown again.
RefreshTokenSettles(i, ok) ==
    /\ i \in 1..Len(ops)
    /\ ops[i].pc = "refreshToken"
    /\ IF ok THEN setToken("provider", "tokA", 3600)
       ELSE UNCHANGED <<memoryToken, memoryExpiry, sessionStorage>>
    /\ ops' = [ops EXCEPT ![i].pc = IF ok THEN "resolved" ELSE "rejected",
                          ![i].outcome = IF ok THEN "ok" ELSE "failed"]
    /\ UNCHANGED <<user, isLoading, authError, check, fetches, href>>
    /\ apFrame

----------------------------------------------------------------------------
(* The HTTP client augmentation (axios.ts, createAuthenticatedClient) *)

\* RETRY_CONFIG
maxRetries == 2
retryDelay == 1000
retryableStatuses == {408, 429, 500, 502, 503, 504}

\* How an attempt ends: with a response (axios fulfils 2xx and rejects the
\* others), without one (network error, timeout), or with an error that has no
\* config (thrown before the request was dispatched).
Outcome(kind, status) == [kind |-> kind, status |-> status]
NoOutcome == Outcome("none", 0)
Statuses == {200, 401, 404} \cup retryableStatuses
Outcomes ==
    {Outcome("response", s) : s \in Statuses}
    \cup {Outcome("network", 0), Outcome("noConfig", 0)}

\* Math.pow(2, n)
RECURSIVE Pow2(_)
Pow2(n) == IF n <= 0 THEN 1 ELSE 2 * Pow2(n - 1)

\* The Token Manager that tokenGetter reads: () => TokenManager.getToken()
tokenGetter == getToken("default")

\* The request interceptor: x-retry-count is set to '0' unless present ...
requestRetryHeader(header) == IF Truthy(header) THEN header ELSE Dec(0)

\* ... and Authorization is set when tokenGetter() returns a token.
requestAuthorization(authorization) ==
    IF Truthy(tokenGetter) THEN tokenGetter ELSE authorization

\* parseInt(reqConfig.headers?.['x-retry-count'] || '0', 10)
retryCountOf(header) == parseInt(IF Truthy(header) THEN header ELSE Dec(0))

\* A variant of shouldRetry that allows one retry more.
shouldRetryInclusive(retryCount, outcome) ==
    /\ retryCount.t = "num" /\ retryCount.n <= maxRetries
    /\ \/ outcome.kind = "network"
       \/ outcome.status # 0 /\ outcome.status \in retryableStatuses

\* shouldRetry: retryCount < maxRetries && (!error.response || (status &&
\* retryableStatuses.includes(status)))
shouldRetry(retryCount, outcome) ==
    /\ NumLess(retryCount, Num(maxRetries))
    /\ \/ outcome.kind = "network"
       \/ outcome.status # 0 /\ outcome.status \in retryableStatuses

\* A variant of the 401 test that takes 404 for unauthorized too.
isUnauthorizedOr404(status) == status \in {401, 404}

\* status === 401
isUnauthorized(status) == status = 401

\* A request made through the client:
\*   pc:   "inflight", "sleeping" (the backoff before a retry), "resolved",
\*         "rejected"
\*   retryHeader: the x-retry-count header of its config
\*   authorization: the Authorization header of its config (the token)
\*   sent: attempts dispatched so far;  delays: the backoffs slept, in order
\*   last: how the latest attempt ended;  rejection: what the caller's
\*   promise was rejected with;  unauthorized: onUnauthorized() calls
Request ==
    /\ Len(reqs) < MaxRequests
    /\ reqs' = Append(reqs,
          [pc |-> "inflight", retryHeader |-> requestRetryHeader(Null),
           authorization |-> requestAuthorization(Null), sent |-> 1, delays |-> <<>>,
           last |-> NoOutcome, rejection |-> NoOutcome, unauthorized |-> 0])
    /\ memoryToken' = [memoryToken EXCEPT !["default"] = getTokenMemory("default").token]
    /\ memoryExpiry' = [memoryExpiry EXCEPT !["default"] = getTokenMemory("default").expiry]
    /\ UNCHANGED <<envVars, config, renewalPromise, attempts, calls, settled, reloads,
                   oaVars, saVars, apVars, etVars, quotaExceeded>>

\* The attempt in flight ends.  A 2xx response resolves the request.  The
\* response interceptor's error handler: an error without config is rejected
\* as it is; a retry raises x-retry-count and sleeps retryDelay * 2^retryCount;
\* otherwise onUnauthorized() is called on a 401 and the error is rejected.
Response(i, outcome) ==
    /\ i \in 1..Len(reqs)
    /\ reqs[i].pc = "inflight"
    /\ LET r == reqs[i]
           retryCount == retryCountOf(r.retryHeader)
       IN reqs' = [reqs EXCEPT ![i] =
             IF outcome.kind = "response" /\ outcome.status \in 200..299
             THEN [r EXCEPT !.pc = "resolved", !.last = outcome]
             ELSE IF outcome.kind = "noConfig"
             THEN [r EXCEPT !.pc = "rejected", !.last = outcome, !.rejection = outcome]
             ELSE IF shouldRetry(retryCount, outcome)
             THEN [r EXCEPT !.pc = "sleeping", !.last = outcome,
                            !.retryHeader = NumToString(Num(retryCount.n + 1)),
                            !.delays = Append(r.delays, retryDelay * Pow2(retryCount.n))]
             ELSE [r EXCEPT !.pc = "rejected", !.last = outcome, !.rejection = outcome,
                            !.unauthorized =
                               IF isUnauthorized(outcome.status) THEN r.unauthorized + 1
                               ELSE r.unauthorized]]
    /\ UNCHANGED <<envVars, tmVars, oaVars, saVars, apVars, etVars, quotaExceeded>>

\* The backoff has passed: client(reqConfig) sends the request again, through
\* the request interceptor.
SleepEnds(i) ==
    /\ i \in 1..Len(reqs)
    /\ reqs[i].pc = "sleeping"
    /\ reqs' = [reqs EXCEPT ![i].pc = "inflight",
                            ![i].sent = reqs[i].sent + 1,
                            ![i].retryHeader = requestRetryHeader(reqs[i].retryHeader),
                            ![i].authorization =
                               requestAuthorization(reqs[i].authorization)]
    /\ memoryToken' = [memoryToken EXCEPT !["default"] = getTokenMemory("default").token]
    /\ memoryExpiry' = [memoryExpiry EXCEPT !["default"] = getTokenMemory("default").expiry]
    /\ UNCHANGED <<envVars, config, renewalPromise, attempts, calls, settled, reloads,
                   oaVars, saVars, apVars, etVars, quotaExceeded>>

----------------------------------------------------------------------------
(* The external-token variant (ExternalTokenProvider.tsx) *)

\* What the shell's getAccessToken() may return: null, or a token string
\* (id), which decodeJwtPayload() can decode or not, with claims whose exp
\* (epoch seconds) is there or not (0).
Jwt(id, decodable, exp) == [id |-> id, decodable |-> decodable, exp |-> exp]
NoToken == Jwt("", FALSE, 0)
ShellTokens ==
    {NoToken,
     Jwt("jwt1", TRUE, (StartNow \div 1000) + 3600),
     Jwt("jwt2", TRUE, 0),
     Jwt("garbage", FALSE, 0)}

\* decodeJwtPayload(token): the claims, or null
decodeJwtPayload(token) == IF token.decodable THEN [exp |-> token.exp] ELSE Null

\* userFromClaims(claims): here the user is named by the token he came from
userFromClaims(token) == Str(token.id)

\* syncToken(): nothing when the token is the one of the last sync; no token
\* or an undecodable one clears the user and the Token Store; otherwise the
\* token is stored when its exp lies ahead, and the user is set.
syncToken ==
    LET token == shellToken
        claims == decodeJwtPayload(token)
        expiresIn == token.exp - (now \div 1000)
    IN IF token = lastTokenRef
       THEN UNCHANGED <<lastTokenRef, extUser, extLoading, memoryToken, memoryExpiry,
                        sessionStorage>>
       ELSE /\ lastTokenRef' = token
            /\ extLoading' = FALSE
            /\ IF token = NoToken \/ claims = Null
               THEN /\ extUser' = Null
                    /\ clearToken("external")
               ELSE /\ extUser' = userFromClaims(token)
                    /\ IF token.exp # 0 /\ expiresIn > 0
                       THEN setToken("external", token.id, expiresIn)
                       ELSE UNCHANGED <<memoryToken, memoryExpiry, sessionStorage>>

\* What no step of the external-token provider changes.
etFrame ==
    UNCHANGED <<now, ticks, storageAvailable, config, renewalPromise, attempts, calls,
                settled, reloads, oaVars, saVars, apVars, axVars, quotaExceeded>>

\* A setInterval timer: the effect run that created it, and whether it is
\* still scheduled.
Timer(run) == [effect |-> run, active |-> TRUE]

\* A variant of clearInterval that leaves the timer scheduled.
clearIntervalKeeps(ts, run) == ts

\* clearInterval(interval), the effect's cleanup: the timer of effect run
\* `run` is not scheduled any more.
clearInterval(ts, run) ==
    [t \in 1..Len(ts) |-> IF ts[t].effect = run THEN [ts[t] EXCEPT !.active = FALSE]
                          ELSE ts[t]]

\* The polling effect runs at mount: syncToken(), then setInterval().
Mount ==
    /\ runs = 0
    /\ syncToken
    /\ runs' = 1
    /\ effect' = 1
    /\ timers' = Append(timers, Timer(1))
    /\ UNCHANGED shellToken
    /\ etFrame

\* syncToken or tokenPollInterval has changed: React runs the cleanup of the
\* effect that is set up, then the effect again.
DepsChange ==
    /\ effect # 0
    /\ runs < MaxRuns
    /\ syncToken
    /\ runs' = runs + 1
    /\ effect' = runs + 1
    /\ timers' = Append(clearInterval(timers, effect), Timer(runs + 1))
    /\ UNCHANGED shellToken
    /\ etFrame

\* The provider is unmounted: React runs the cleanup of the effect.
Unmount ==
    /\ effect # 0
    /\ effect' = 0
    /\ timers' = clearInterval(timers, effect)
    /\ UNCHANGED <<runs, shellToken, lastTokenRef, extUser, extLoading, memoryToken,
                   memoryExpiry, sessionStorage>>
    /\ etFrame

\* A scheduled timer fires: syncToken().
PollFires(t) ==
    /\ t \in 1..Len(timers)
    /\ timers[t].active
    /\ syncToken
    /\ UNCHANGED <<runs, effect, timers, shellToken>>
    /\ etFrame

\* The shell gets another token (or loses it).
ShellChanges(token) ==
    /\ token # shellToken
    /\ shellToken' = token
    /\ UNCHANGED <<runs, effect, timers, lastTokenRef, extUser, extLoading, memoryToken,
                   memoryExpiry, sessionStorage>>
    /\ etFrame

----------------------------------------------------------------------------
(* Specifications *)

\* Time passes.
Tick ==
    /\ ticks < MaxTicks
    /\ now' = now + TickMs
    /\ ticks' = ticks + 1
    /\ UNCHANGED <<sessionStorage, storageAvailable, tmVars, appVars, saVars, oaVars>>

StorageKeys ==
    {"access_token", "access_token_expiry", "mf_access_token", "mf_access_token_expiry",
     "my_token", STATE_KEY, RETURN_PATH_KEY}

\* No Token Manager has been used.
TMIdle ==
    /\ config = [m \in Stores |-> IF m = "external" THEN externalTokenManager
                                  ELSE IF m = "custom" THEN customTokenManager
                                  ELSE createTokenManager(m = "provider")]
    /\ memoryToken = [m \in Stores |-> Null]
    /\ memoryExpiry = [m \in Stores |-> Null]
    /\ renewalPromise = [m \in Stores |-> 0]
    /\ attempts = <<>>
    /\ calls = <<>>
    /\ settled = [m \in Stores |-> 0]
    /\ reloads = 0

\* No login has been initiated and no callback URL loaded.
OAuthIdle ==
    /\ query = NoQuery
    /\ inv = <<>>
    /\ logins = 0
    /\ navs = 0
    /\ passed = 0
    /\ completed = Null
    /\ exchanges = 0

\* trySilentAuth() has not been called.
SilentIdle ==
    /\ silent = <<>>
    /\ delivered = 0

\* AuthProvider has been rendered and its effect has not run yet.
AuthIdle ==
    /\ authConfig = [mode |-> "direct", bff |-> FALSE, enableSilentAuth |-> FALSE,
                     logoutUrl |-> FALSE]
    /\ user = Null
    /\ isLoading = TRUE
    /\ authError = Null
    /\ check = CheckAtMount
    /\ ops = <<>>
    /\ fetches = <<>>
    /\ href = "app"

\* No request has been made through the authenticated client.
AxiosIdle == reqs = <<>>

\* ExternalTokenProvider has been rendered and its effect has not run yet.
ExternalIdle ==
    /\ lastTokenRef = NoToken
    /\ extUser = Null
    /\ extLoading = TRUE
    /\ effect = 0
    /\ timers = <<>>
    /\ runs = 0

\* None of the orchestrators or clients has been used.
AppIdle ==
    /\ AuthIdle
    /\ AxiosIdle
    /\ ExternalIdle
    /\ shellToken = NoToken
    /\ quotaExceeded = FALSE

InitTM ==
    /\ now = StartNow
    /\ ticks = 0
    /\ sessionStorage = [k \in StorageKeys |-> Null]
    /\ storageAvailable \in BOOLEAN
    /\ TMIdle
    /\ build = "js"
    /\ engineQuotes = TRUE
    /\ OAuthIdle
    /\ SilentIdle
    /\ AppIdle

NextTM ==
    \/ \E m \in Managers : GetToken(m)
    \/ \E expiresIn \in TTLs : SetToken("provider", "tokA", expiresIn)
    \/ ClearToken("provider")
    \/ \E m \in Managers, invocation \in FetcherInvocations : EnsureAccessToken(m, invocation)
    \/ \E id \in 1..MaxCalls, token \in Tokens, expiresIn \in TTLs :
          FetchResolves(id, token, expiresIn)
    \/ \E id \in 1..MaxCalls : FetchFails(id)
    \/ \E c \in 1..MaxCalls : CallResumes(c)
    \/ Tick

SpecTM == InitTM /\ [][NextTM]_vars

InitOAuth ==
    /\ now = StartNow
    /\ ticks = 0
    /\ sessionStorage = [k \in StorageKeys |-> Null]
    /\ storageAvailable = TRUE
    /\ TMIdle
    /\ build \in {"js", "ts"}
    /\ engineQuotes \in BOOLEAN
    /\ OAuthIdle
    /\ SilentIdle
    /\ AppIdle

NextOAuth ==
    \/ \E returnPath \in {Null, Str("/dashboard")} : InitiateLogin(returnPath)
    \/ \E q \in Queries : NavigateCallback(q)
    \/ StartCallback
    \/ \E i \in 1..MaxInv, ok \in BOOLEAN : ExchangeSettles(i, ok)
    \/ EffectCleanup
    \/ GetReturnPath
    \/ Tick

SpecOAuth == InitOAuth /\ [][NextOAuth]_vars

InitSilent ==
    /\ now = StartNow
    /\ ticks = 0
    /\ sessionStorage = [k \in StorageKeys |-> Null]
    /\ storageAvailable = TRUE
    /\ TMIdle
    /\ build = "js"
    /\ engineQuotes = TRUE
    /\ OAuthIdle
    /\ SilentIdle
    /\ AppIdle

\* The configurations trySilentAuth() is called with: each authServiceUrl
\* with the default timeout, and one with timeout: 100.
SilentConfigs ==
    {<<u, Null>> : u \in AuthServiceUrls}
    \cup {<<Url(TRUE, "https://auth.example", ""), Num(100)>>}

NextSilent ==
    \/ \E cfg \in SilentConfigs : TrySilentAuth(cfg[1], cfg[2])
    \/ \E e \in Messages : MessageEvent(e)
    \/ \E i \in 1..MaxAttempts : TimerFires(i)
    \/ \E i \in 1..MaxAttempts : IframeError(i)

SpecSilent == InitSilent /\ [][NextSilent]_vars

\* The Token Stores of the store specification: two instances with different
\* storage-key namespaces.
StoreInstances == {"provider", "external"}

\* The lifetimes (seconds) setToken() is called with: with the default
\* expiryBuffer a lifetime of 50 s is expiring soon at once, one of 120 s is not.
StoreTTLs == {50, 120}

\* What an earlier page load can have left under a token key and its expiry
\* key: nothing, a token that expires in 50 s, a token that expires now, and
\* malformed pairs (an expiry that is no number, an expiry with trailing
\* characters, a token without expiry, an expiry without token, an empty token).
PersistedPairs ==
    {<<Null, Null>>,
     <<Str("tokS"), Dec(StartNow + 50000)>>,
     <<Str("tokS"), Dec(StartNow)>>,
     <<Str("tokS"), Str("soon")>>,
     <<Str("tokS"), DecPrefix(StartNow + 50000)>>,
     <<Str("tokS"), Null>>,
     <<Null, Dec(StartNow + 50000)>>,
     <<Str(""), Dec(StartNow + 50000)>>}

\* At most this many ensureAccessToken() calls in the store specification.
MaxStoreCalls == 2

InitStore ==
    /\ now = StartNow
    /\ ticks = 0
    /\ storageAvailable \in BOOLEAN
    /\ \E p \in PersistedPairs :
          sessionStorage =
             [k \in StorageKeys |->
                 IF ~storageAvailable THEN Null
                 ELSE IF k = "access_token" THEN p[1]
                 ELSE IF k = "access_token_expiry" THEN p[2]
                 ELSE Null]
    /\ TMIdle
    /\ build = "js"
    /\ engineQuotes = TRUE
    /\ OAuthIdle
    /\ SilentIdle
    /\ AppIdle

NextStore ==
    \/ \E m \in StoreInstances : GetToken(m)
    \/ \E m \in StoreInstances, expiresIn \in StoreTTLs :
          SetToken(m, IF m = "provider" THEN "tokA" ELSE "tokB", expiresIn)
    \/ \E m \in StoreInstances : ClearToken(m)
    \/ \E m \in StoreInstances :
          Len(calls) < MaxStoreCalls /\ EnsureAccessToken(m, "pending")
    \/ \E id \in 1..MaxCalls : FetchResolves(id, "tokB", 120)
    \/ \E id \in 1..MaxCalls : FetchFails(id)
    \/ \E c \in 1..MaxCalls : CallResumes(c)
    \/ Reload
    \/ Tick

SpecStore == InitStore /\ [][NextStore]_vars

\* The storage quota is used up, or room is made again: from now on setItem
\* throws (and writeStorage swallows it), or works again.  getItem and
\* removeItem work in both cases.
QuotaChanges ==
    /\ quotaExceeded' = ~quotaExceeded
    /\ UNCHANGED <<envVars, tmVars, oaVars, saVars, apVars, axVars, etVars>>

\* One Token Store whose writes may fail for a while.
NextQuota ==
    \/ GetToken("provider")
    \/ \E token \in Tokens, expiresIn \in StoreTTLs : SetToken("provider", token, expiresIn)
    \/ ClearToken("provider")
    \/ Len(calls) < MaxStoreCalls /\ EnsureAccessToken("provider", "pending")
    \/ \E id \in 1..MaxCalls : FetchResolves(id, "tokB", 120)
    \/ \E id \in 1..MaxCalls : FetchFails(id)
    \/ \E c \in 1..MaxCalls : CallResumes(c)
    \/ QuotaChanges
    \/ Tick

SpecQuota == InitStore /\ [][NextQuota]_vars

\* A Token Store on which ensureAccessToken() is called only while something
\* is stored: a renewal that is in flight while the store is empty was started
\* before the clearToken() that emptied it.
NextClear ==
    \/ GetToken("provider")
    \/ \E token \in Tokens, expiresIn \in StoreTTLs : SetToken("provider", token, expiresIn)
    \/ ClearToken("provider")
    \/ /\ Len(calls) < MaxStoreCalls
       /\ memoryToken["provider"] # Null \/ sessionStorage["access_token"] # Null
       /\ EnsureAccessToken("provider", "pending")
    \/ \E id \in 1..MaxCalls : FetchResolves(id, "tokB", 120)
    \/ \E id \in 1..MaxCalls : FetchFails(id)
    \/ \E c \in 1..MaxCalls : CallResumes(c)
    \/ Tick

SpecClear == InitStore /\ [][NextClear]_vars

\* The default TokenManager instance and the Token Manager of AuthProvider in
\* one page: both are created with the default keys.
NextShared ==
    \/ \E m \in Managers : GetToken(m)
    \/ \E m \in Managers, expiresIn \in StoreTTLs :
          SetToken(m, IF m = "provider" THEN "tokA" ELSE "tokB", expiresIn)
    \/ \E m \in Managers : ClearToken(m)
    \/ Reload
    \/ Tick

SpecShared == InitStore /\ [][NextShared]_vars

\* The default TokenManager instance and the custom instance of the README in
\* one page.
CustomInstances == {"default", "custom"}

NextCustom ==
    \/ \E m \in CustomInstances : GetToken(m)
    \/ \E m \in CustomInstances, expiresIn \in StoreTTLs :
          SetToken(m, IF m = "default" THEN "tokA" ELSE "tokB", expiresIn)
    \/ \E m \in CustomInstances : ClearToken(m)
    \/ Reload
    \/ Tick

SpecCustom == InitStore /\ [][NextCustom]_vars

\* The token an earlier page may have left under the default keys.
EarlierToken == <<Str("tokS"), Dec(StartNow + 3600000)>>

\* Session storage with the pair p under the default keys.
StorageWith(p) ==
    [k \in StorageKeys |->
        IF k = "access_token" THEN p[1]
        ELSE IF k = "access_token_expiry" THEN p[2]
        ELSE Null]

\* AuthProvider in each configuration, on a page that may hold a token of an
\* earlier page.
InitAuth ==
    /\ now = StartNow
    /\ ticks = 0
    /\ storageAvailable = TRUE
    /\ sessionStorage \in {StorageWith(<<Null, Null>>), StorageWith(EarlierToken)}
    /\ TMIdle
    /\ build = "js"
    /\ engineQuotes = TRUE
    /\ OAuthIdle
    /\ SilentIdle
    /\ authConfig \in AuthConfigs
    /\ user = Null
    /\ isLoading = TRUE
    /\ authError = Null
    /\ check = CheckAtMount
    /\ ops = <<>>
    /\ fetches = <<>>
    /\ href = "app"
    /\ AxiosIdle
    /\ ExternalIdle
    /\ shellToken = NoToken
    /\ quotaExceeded = FALSE

NextAuth ==
    \/ CheckAuth
    \/ \E result \in {"code", "failed"} : SilentAuthSettles(result)
    \/ \E outcome \in ExchangeOutcomes : TokenExchangeSettles(outcome)
    \/ \E outcome \in UserInfoOutcomes : UserInfoSettles(outcome)
    \/ \E ok \in BOOLEAN : CurrentUserSettles(ok)
    \/ \E ok \in BOOLEAN : CheckRefreshSettles(ok)
    \/ Login
    \/ \E i \in 1..MaxOps, ok \in BOOLEAN : LoginSettles(i, ok)
    \/ \E i \in 1..MaxOps, ok \in BOOLEAN : LoginRefreshSettles(i, ok)
    \/ Logout
    \/ \E i \in 1..MaxOps, ok \in BOOLEAN : LogoutSettles(i, ok)
    \/ RefreshUser
    \/ \E i \in 1..MaxOps, ok \in BOOLEAN : RefreshUserSettles(i, ok)
    \/ RefreshToken
    \/ \E i \in 1..MaxOps, ok \in BOOLEAN : RefreshTokenSettles(i, ok)

SpecAuth == InitAuth /\ [][NextAuth]_vars

\* The effect runs after the first render, trySilentAuth() resolves (its timer
\* fires at the latest) and every request of the check settles.
SpecAuthLive ==
    /\ SpecAuth
    /\ WF_vars(CheckAuth)
    /\ WF_vars(\E result \in {"code", "failed"} : SilentAuthSettles(result))
    /\ WF_vars(\E outcome \in ExchangeOutcomes : TokenExchangeSettles(outcome))
    /\ WF_vars(\E outcome \in UserInfoOutcomes : UserInfoSettles(outcome))
    /\ WF_vars(\E ok \in BOOLEAN : CurrentUserSettles(ok))
    /\ WF_vars(\E ok \in BOOLEAN : CheckRefreshSettles(ok))

\* The authenticated client, with or without a token under the default keys.
InitAxios ==
    /\ now = StartNow
    /\ ticks = 0
    /\ storageAvailable = TRUE
    /\ sessionStorage \in {StorageWith(<<Null, Null>>), StorageWith(EarlierToken)}
    /\ TMIdle
    /\ build = "js"
    /\ engineQuotes = TRUE
    /\ OAuthIdle
    /\ SilentIdle
    /\ AppIdle

NextAxios ==
    \/ Request
    \/ \E i \in 1..MaxRequests, outcome \in Outcomes : Response(i, outcome)
    \/ \E i \in 1..MaxRequests : SleepEnds(i)

SpecAxios == InitAxios /\ [][NextAxios]_vars

\* The authenticated client while the application sets and clears the token
\* that tokenGetter reads.
NextAxiosTokens ==
    \/ NextAxios
    \/ SetToken("default", "tokB", 3600)
    \/ ClearToken("default")

SpecAxiosTokens == InitAxios /\ [][NextAxiosTokens]_vars

\* ExternalTokenProvider, whatever the shell supplies at first.
InitExternal ==
    /\ now = StartNow
    /\ ticks = 0
    /\ storageAvailable = TRUE
    /\ sessionStorage = [k \in StorageKeys |-> Null]
    /\ TMIdle
    /\ build = "js"
    /\ engineQuotes = TRUE
    /\ OAuthIdle
    /\ SilentIdle
    /\ AuthIdle
    /\ AxiosIdle
    /\ ExternalIdle
    /\ shellToken \in ShellTokens
    /\ quotaExceeded = FALSE

NextExternal ==
    \/ Mount
    \/ DepsChange
    \/ Unmount
    \/ \E t \in 1..MaxRuns : PollFires(t)
    \/ \E token \in ShellTokens : ShellChanges(token)
    \/ Tick

SpecExternal == InitExternal /\ [][NextExternal]_vars

\* A timer that has been set fires: the event loop runs its callback after
\* the delay unless clearTimeout has cancelled it.
SpecSilentLive ==
    SpecSilent /\ \A i \in 1..MaxAttempts : WF_vars(TimerFires(i))

----------------------------------------------------------------------------
(* Claims about the Token Manager, checked under SpecTM *)

AttemptIds == 1..Len(attempts)
CallIds == 1..Len(calls)

\* The calls that took the renewal path: made while no valid token that is not
\* expiring soon was stored, on a manager with a tokenFetcher.
RenewingCalls == {c \in CallIds : calls[c].renewing}

\* C1: single flight.  A manager never has two tokenFetcher calls in flight;
\* among the renewing calls made on one manager with no fetch settling between
\* them (the same epoch) tokenFetcher is invoked at most once, every one of
\* them awaits a promise for which tokenFetcher was invoked, all of them await
\* the same promise, and those that have resolved resolved to the same value.
C1_SingleFlight ==
    /\ \A m \in Managers :
          Cardinality({a \in AttemptIds : attempts[a].mgr = m /\ attempts[a].st = "pending"}) <= 1
    /\ \A a, b \in AttemptIds :
          (attempts[a].mgr = attempts[b].mgr /\ attempts[a].epoch = attempts[b].epoch) => a = b
    /\ \A c \in RenewingCalls :
          /\ calls[c].att \in AttemptIds
          /\ attempts[calls[c].att].mgr = calls[c].mgr
    /\ \A c, d \in RenewingCalls :
          (calls[c].mgr = calls[d].mgr /\ calls[c].epoch = calls[d].epoch) =>
              /\ calls[c].att = calls[d].att
              /\ (calls[c].st # "waiting" /\ calls[d].st # "waiting") =>
                    (calls[c].st = calls[d].st /\ calls[c].val = calls[d].val)

\* Three concurrent calls shared one fetch and all resolved to its token.
C1_Witness ==
    /\ Len(attempts) = 1
    /\ Len(calls) = 3
    /\ \A c \in CallIds :
          calls[c].renewing /\ calls[c].epoch = 0 /\ calls[c].st = "resolved" /\ Truthy(calls[c].val)

\* C2: the in-flight marker is cleared when a renewal attempt finishes, for
\* every outcome of the fetch strategy: renewalPromise never holds a promise
\* that has settled.
C2_MarkerCleared ==
    \A m \in Managers :
        renewalPromise[m] # 0 => attempts[renewalPromise[m]].st = "pending"

WithinBuffer(expiry) == expiry.t = "num" /\ expiry.n - now <= expiryBuffer * 1000

\* The ensureAccessToken() call a step makes, if it makes one.
CallMade == Len(calls') = Len(calls) + 1
NewCall == calls'[Len(calls')]

\* C4: a step that calls ensureAccessToken() invokes tokenFetcher only when
\* no valid token is stored or the stored one is within expiryBuffer of its
\* expiry; with a valid token that is not expiring soon it returns that token
\* and fetches nothing; with no tokenFetcher configured it returns what
\* getToken() returns, fetches nothing and never calls onRenewalFailure.
C4_FetchOnlyWhenNeeded ==
    [][CallMade =>
         LET m == NewCall.mgr
             fresh == Truthy(getToken(m)) /\ ~WithinBuffer(getTokenMemory(m).expiry)
         IN /\ Len(attempts') > Len(attempts) => (config[m].tokenFetcher /\ ~fresh)
            /\ (fresh \/ ~config[m].tokenFetcher) =>
                  /\ attempts' = attempts
                  /\ NewCall.st = "resolved"
                  /\ NewCall.val = getToken(m)
                  /\ NewCall.att = 0]_vars

\* A call returned a stored token of lifetime 3600 s with no fetch at all.
C4_Witness ==
    /\ Len(attempts) = 0
    /\ \E c \in CallIds :
          /\ calls[c].mgr = "provider"
          /\ calls[c].st = "resolved"
          /\ calls[c].val = Str("tokA")
          /\ memoryExpiry["provider"].t = "num"
          /\ memoryExpiry["provider"].n - now > 3000 * 1000

----------------------------------------------------------------------------
(* Claims about the OAuth flow, checked under SpecOAuth *)

\* The handleCallback() invocation a step starts, if it starts one.
Started == Len(inv') = Len(inv) + 1
NewInv == inv'[Len(inv')]
\* The invocation a step finishes (it has thrown or returned), if any.
Finishes(i) ==
    /\ i \in 1..Len(inv')
    /\ inv'[i].pc \in {"succeeded", "failed"}
    /\ (i \in 1..Len(inv) => inv[i].pc = "exchanging")
\* The callback of the current page carries a code and no error parameter.
CarriesCode == ~Truthy(query.error) /\ Truthy(query.code)

\* C5: a persisted CSRF state validates at most one callback: after one
\* initiateLogin() at most one handleCallback() invocation passes state
\* validation and issues the code exchange.
C5_StateValidatesOnce == passed <= 1

\* C6: a callback carrying exactly the persisted CSRF state passes validation;
\* once the handling of that callback has completed (and no login has been
\* initiated since), no state is persisted any more and a replay of the
\* callback fails state validation.
C6_RoundTripThenReplayFails ==
    [][(Started /\ CarriesCode /\ query.state.kind = "hex") =>
          /\ (sessionStorage[STATE_KEY] = StateString(query.state)) =>
                (NewInv.pc = "exchanging" /\ NewInv.flow = "standard")
          /\ (completed = StateString(query.state)) =>
                /\ sessionStorage[STATE_KEY] = Null
                /\ NewInv.pc = "failed"
                /\ NewInv.err = "csrf"]_vars

\* The callback of the first login was handled to completion, and its replay
\* on the same page failed validation.
C6_Witness ==
    /\ logins = 1
    /\ query.state = StateParam("hex", 1, 0, Null)
    /\ completed = Hex(1)
    /\ Len(inv) = 2
    /\ inv[1].pc = "succeeded"
    /\ inv[2].pc = "failed" /\ inv[2].err = "csrf"

\* C7: the token request is issued only after validation has passed: never
\* for a callback with an error parameter, without code or state, with an
\* expired registration token, or (standard flow) with a state that differs
\* from the persisted CSRF state or with none persisted.
C7_ExchangeOnlyAfterValidation ==
    [][exchanges' # exchanges =>
          /\ Started
          /\ exchanges' = exchanges + 1
          /\ ~Truthy(query.error)
          /\ Truthy(query.code)
          /\ query.state.kind # "none"
          /\ IF query.state.kind = "reg"
             THEN now - query.state.ts <= 120000
             ELSE /\ sessionStorage[STATE_KEY] # Null
                  /\ sessionStorage[STATE_KEY] = StateString(query.state)]_vars

\* A forged callback (a state that was never issued) was rejected while a
\* state was persisted, and no token request has been issued.
C7_Witness ==
    /\ exchanges = 0
    /\ logins = 1
    /\ query.state = StateParam("hex", 0, 0, Null)
    /\ Len(inv) = 1
    /\ inv[1].pc = "failed" /\ inv[1].err = "csrf"

\* C8: every way handleCallback() can finish leaves no CSRF state persisted:
\* when an invocation throws or returns, the state has been cleared.
C8_FinishLeavesNoState ==
    [][(\E i \in 1..MaxInv : Finishes(i)) => sessionStorage'[STATE_KEY] = Null]_vars

\* The return paths initiateLogin() stores: the one it is given, or the
\* current location.
InitiatedReturnPaths == {Str("/dashboard"), Str("/current")}

\* C20: callback handling consumes the OAuth Session State whatever the
\* outcome: when a handleCallback() invocation has finished (thrown or
\* returned, with processCallback's getReturnPath() on success), neither the
\* CSRF state nor the return path an earlier initiateLogin() stored remains in
\* session storage.
C20_SessionStateConsumed ==
    [][(logins > 0 /\ \E i \in 1..MaxInv : Finishes(i)) =>
          /\ sessionStorage'[STATE_KEY] = Null
          /\ sessionStorage'[RETURN_PATH_KEY] \notin InitiatedReturnPaths
    ]_vars

\* The timestamp is one in epoch seconds near the current time.
InEpochSeconds(ts) == (now \div 1000) - ts \in -600..600

C10_AsStated ==
    [][(Started /\ CarriesCode /\ query.state.kind = "reg"
          /\ query.state.ts - now > 120000) => NewInv.pc # "exchanging"]_vars

\* C10, amended: a callback is exempt from the CSRF state comparison iff its
\* state is a registration token whose ts is not more than 120000 ms in the
\* past; a ts in the future is accepted however far ahead it lies.
C10_ExemptUnlessPast ==
    [][(Started /\ CarriesCode /\ query.state.kind # "none") =>
          /\ NewInv.flow = "registration" <=> query.state.kind = "reg"
          /\ (NewInv.pc = "exchanging" /\ ~validateState(sessionStorage, query.state)) <=>
                (query.state.kind = "reg" /\ query.state.ts >= now - 120000)
          /\ (query.state.kind = "reg" /\ query.state.ts > now) =>
                NewInv.pc = "exchanging"]_vars

\* A registration token stamped 200 s in the future was accepted with no
\* CSRF state persisted.
C10_Witness ==
    /\ sessionStorage[STATE_KEY] = Null
    /\ query.state.kind = "reg"
    /\ query.state.ts - now >= 140000
    /\ Len(inv) = 1
    /\ inv[1].pc = "exchanging" /\ inv[1].flow = "registration"

----------------------------------------------------------------------------
(* Claims about silent authentication, checked under SpecSilent *)

SilentIds == 1..Len(silent)

\* The message event e passes the three checks of attempt a, as the claim
\* states them: the origin of the auth service, the tag, the generated state.
ValidFor(e, a) ==
    /\ a.authServiceUrl.valid
    /\ e.origin = a.authServiceUrl.origin
    /\ e.data.object
    /\ e.data.type = "iriai_silent_auth_callback"
    /\ e.data.state = generateState(a.originalState.n)

\* What a valid message resolves the promise with.
MessageResult(e) ==
    IF Truthy(e.data.code)
    THEN Resolved(TRUE, e.data.code, Null, e.data.state)
    ELSE Resolved(FALSE, Null, e.data.error, e.data.state)

\* C11: the promise of trySilentAuth() settles exactly once.  In every step,
\* for every attempt: resolve() and cleanup() have each been called at most
\* once, and exactly once iff the promise has been resolved; an attempt that
\* had been resolved keeps its result and its cleanup count whatever arrives
\* (message, timeout, iframe error); and for a pending attempt the event of the
\* step decides the result (the timeout: "timeout", the iframe error:
\* "iframe_error", a valid message: its code or error).
C11_SettlesOnce ==
    [][\A i \in 1..Len(silent') :
          /\ silent'[i].resolves <= 1
          /\ silent'[i].cleanups <= 1
          /\ silent'[i].resolves = (IF silent'[i].result.st = "resolved" THEN 1 ELSE 0)
          /\ silent'[i].cleanups = silent'[i].resolves
          /\ (i \in SilentIds /\ silent[i].result.st = "resolved") =>
                /\ silent'[i].result = silent[i].result
                /\ silent'[i].cleanups = silent[i].cleanups
                /\ silent'[i].resolves = silent[i].resolves
          /\ (i \in SilentIds /\ silent[i].result.st = "pending") =>
                /\ TimerFires(i) =>
                      silent'[i].result = Resolved(FALSE, Null, Str("timeout"), Null)
                /\ IframeError(i) =>
                      silent'[i].result = Resolved(FALSE, Null, Str("iframe_error"), Null)
                /\ delivered' # delivered =>
                      \A e \in Messages :
                          (ValidFor(e, silent[i]) /\ MessageEvent(e)) =>
                              silent'[i].result = MessageResult(e)
    ]_vars

\* An attempt was resolved by a valid message; afterwards its timer fired and
\* its iframe raised an error.
C11_Witness ==
    \E i \in SilentIds :
        /\ silent[i].result.success
        /\ silent[i].timer = "fired"
        /\ silent[i].errored

\* C12: trySilentAuth() acts on a message event only when it passes the three
\* checks.  A message event that fails one of them for an attempt leaves the
\* attempt as it was (pending, listener attached, iframe in place, timer
\* running; only the handler's invocation count grows), and an attempt becomes
\* resolved only in a step that is a valid message for it, its timeout (result
\* "timeout") or its iframe error.
C12_OnlyValidMessagesAct ==
    [][\A i \in SilentIds :
          /\ \/ [silent'[i] EXCEPT !.heard = 0] = [silent[i] EXCEPT !.heard = 0]
             \/ \A e \in Messages : ~(~ValidFor(e, silent[i]) /\ MessageEvent(e))
          /\ (silent[i].result.st = "pending" /\ silent'[i].result.st = "resolved") =>
                \/ \E e \in Messages : ValidFor(e, silent[i]) /\ MessageEvent(e)
                \/ TimerFires(i) /\ silent'[i].result.error = Str("timeout")
                \/ IframeError(i)
    ]_vars

\* An attempt heard two message events, acted on neither, and was resolved by
\* its timeout.
C12_Witness ==
    \E i \in SilentIds :
        /\ silent[i].authServiceUrl.valid
        /\ silent[i].heard = 2
        /\ silent[i].result.error = Str("timeout")
        /\ ~silent[i].errored

\* C13: every trySilentAuth() attempt eventually resolves and never rejects.
\* The timer it sets has the configured delay, 5000 ms by default; when the
\* timer fires on a pending attempt the promise resolves to {success: false,
\* error: "timeout"}; and every attempt made is eventually resolved.
C13_EventuallyResolves ==
    /\ [](\A i \in SilentIds :
            /\ silent[i].result.st \in {"pending", "resolved"}
            /\ silent[i].timeout = (IF silent[i].cfgTimeout = Null THEN 5000
                                    ELSE silent[i].cfgTimeout.n))
    /\ [][\A i \in SilentIds :
            (TimerFires(i) /\ silent[i].result.st = "pending") =>
                silent'[i].result = Resolved(FALSE, Null, Str("timeout"), Null)]_vars
    /\ \A i \in 1..MaxAttempts :
            (Len(silent) >= i) ~> (Len(silent) >= i /\ silent[i].result.st = "resolved")

\* An attempt with the default timeout that heard no message and had no
\* iframe error was resolved with "timeout".
C13_Witness ==
    \E i \in SilentIds :
        /\ silent[i].cfgTimeout = Null
        /\ silent[i].heard = 0
        /\ ~silent[i].errored
        /\ silent[i].result = Resolved(FALSE, Null, Str("timeout"), Null)

\* C14: on every resolution path, once the promise has resolved the listener
\* is detached, the iframe is out of the document and the timer is no longer
\* pending.
C14_NothingRemainsActive ==
    \A i \in SilentIds :
        silent[i].result.st = "resolved" =>
            /\ ~silent[i].listener
            /\ ~silent[i].iframe
            /\ silent[i].timer # "pending"

----------------------------------------------------------------------------
(* Claims about the Token Store, checked under SpecStore *)

\* The cache of store m holds a credential that has not expired.
CacheUnexpired(m) ==
    /\ memoryToken[m] \notin {Null, Str("")}
    /\ memoryExpiry[m].t = "num"
    /\ now < memoryExpiry[m].n

\* What is persisted under the keys of store m, as the strings stored.
PersistedToken(m) == sessionStorage[config[m].storageKey]
PersistedExpiry(m) == sessionStorage[config[m].expiryKey]

\* The persisted copy of store m can be read and is an unexpired credential:
\* a non-empty token and an expiry that starts with the digits of a time
\* later than now.
PersistedUnexpired(m) ==
    /\ storageAvailable
    /\ PersistedToken(m) \notin {Null, Str("")}
    /\ PersistedExpiry(m).t \in {"dec", "decx"}
    /\ now < PersistedExpiry(m).n

\* C15: getToken() never returns an expired token.  In every state, for every
\* store: with an unexpired credential in the cache getToken() returns the
\* cached token and leaves the cache alone (whatever is persisted); otherwise,
\* with an unexpired persisted credential, it returns the persisted token and
\* the cache then holds that token and its expiry; otherwise it returns absent
\* and leaves the cache alone (storage unavailable or malformed included); and
\* a token it returns has an expiry later than now.
C15_GetTokenUnexpired ==
    \A m \in StoreInstances :
        LET t == getToken(m)
            mem == getTokenMemory(m)
            cache == [token |-> memoryToken[m], expiry |-> memoryExpiry[m]]
        IN /\ CacheUnexpired(m) => (t = memoryToken[m] /\ mem = cache)
           /\ (~CacheUnexpired(m) /\ PersistedUnexpired(m)) =>
                 /\ t = PersistedToken(m)
                 /\ mem = [token |-> PersistedToken(m),
                           expiry |-> Num(PersistedExpiry(m).n)]
           /\ (~CacheUnexpired(m) /\ ~PersistedUnexpired(m)) => (t = Null /\ mem = cache)
           /\ t # Null => (mem.token = t /\ mem.expiry.t = "num" /\ now < mem.expiry.n)

\* A store's cache holds the token an earlier page load had persisted
\* (getToken() promoted it), it has expired since and getToken() returns
\* absent, while the other store returns the unexpired token set on it.
C15_Witness ==
    /\ memoryToken["provider"] = Str("tokS")
    /\ ~CacheUnexpired("provider")
    /\ getToken("provider") = Null
    /\ getToken("external") = Str("tokB")

\* A step that is a setToken() on store m: the call itself, or the one a
\* renewal makes when its fetch resolves.
SetStep(m) ==
    \/ \E token \in Tokens, expiresIn \in StoreTTLs : SetToken(m, token, expiresIn)
    \/ \E id \in AttemptIds, token \in Tokens, expiresIn \in TTLs :
          attempts[id].mgr = m /\ FetchResolves(id, token, expiresIn)

\* C16: with the persistent storage failing on every access, in every step
\* and for every store: a setToken() completes and getToken() then returns the
\* token set; getToken() returns exactly the cached token while it has not
\* expired, and the cache changes only by setToken(), clearToken() and a
\* reload; after a reload (fresh instances) getToken() returns absent.
C16_MemoryOnlyWhenStorageFails ==
    [][~storageAvailable =>
          \A m \in StoreInstances :
              /\ \A token \in Tokens, expiresIn \in StoreTTLs :
                    SetToken(m, token, expiresIn) => getToken(m)' = Str(token)
              /\ Reload => getToken(m)' = Null
              /\ getToken(m)' = (IF CacheUnexpired(m)' THEN memoryToken'[m] ELSE Null)
              /\ (~SetStep(m) /\ ~ClearToken(m) /\ ~Reload) =>
                    (memoryToken'[m] = memoryToken[m] /\ memoryExpiry'[m] = memoryExpiry[m])
    ]_vars

\* With the storage failing, a store still returns the token set after time
\* has passed and the page has once been reloaded.
C16_Witness ==
    /\ ~storageAvailable
    /\ reloads = 1
    /\ ticks >= 1
    /\ getToken("provider") = Str("tokA")
    /\ getToken("external") = Null

\* The expiry isExpiringSoon() looks at: the cached one, else the persisted
\* one as parseInt reads it.
HeldExpiry(m) ==
    IF memoryExpiry[m] # Null THEN memoryExpiry[m]
    ELSE IF ~storageAvailable \/ PersistedExpiry(m) \in {Null, Str("")} THEN Null
    ELSE IF PersistedExpiry(m).t \in {"dec", "decx"} THEN Num(PersistedExpiry(m).n)
    ELSE NaN

\* now is at or past the held expiry minus expiryBuffer (60) seconds.
AtOrPastBuffer(m) == HeldExpiry(m).t = "num" /\ now >= HeldExpiry(m).n - 60 * 1000

\* C17 as stated: isExpiringSoon() is true iff getToken() returns a
\* credential and its expiry is within expiryBuffer seconds of now; false
\* whenever getToken() returns absent.
C17_AsStated ==
    \A m \in StoreInstances :
        isExpiringSoon(m, memoryExpiry[m]) =
            (/\ getToken(m) # Null
             /\ getTokenMemory(m).expiry.n - now <= 60 * 1000)

\* C17: isExpiringSoon() is true iff the store holds an expiry (cached, else
\* persisted) and now is at or past that expiry minus expiryBuffer seconds,
\* also when the credential has already expired and getToken() returns absent;
\* it is false when the store holds no expiry.  Right after setToken(token,
\* ttl) it is true for ttl 50 and false for ttl 120.
C17_ExpiringSoonOrExpired ==
    [][\A m \in StoreInstances :
          /\ isExpiringSoon(m, memoryExpiry[m])' = AtOrPastBuffer(m)'
          /\ \A token \in Tokens, expiresIn \in StoreTTLs :
                SetToken(m, token, expiresIn) =>
                    isExpiringSoon(m, memoryExpiry[m])' = (expiresIn <= 60)
    ]_vars

\* A token set with ttl 120 has reached the boundary (its expiry is exactly
\* expiryBuffer seconds away) and another one has expired in the cache.
C17_Witness ==
    /\ memoryExpiry["provider"] = Num(now + 60 * 1000)
    /\ getToken("provider") # Null
    /\ memoryExpiry["external"] # Null
    /\ getToken("external") = Null

\* Store m is empty: nothing cached, nothing persisted under its keys.
Empty(m) ==
    /\ memoryToken[m] = Null
    /\ memoryExpiry[m] = Null
    /\ PersistedToken(m) = Null
    /\ PersistedExpiry(m) = Null

\* C18: after clearToken() the store is empty and stays so until the next
\* setToken().  In every step and for every store: a clearToken() leaves the
\* cache and the persisted token and expiry keys empty; an empty store stays
\* empty in every step that is not a setToken() on it; and an empty store's
\* getToken() returns absent.  Storage unavailable included.
C18_ClearedUntilSet ==
    [][\A m \in StoreInstances :
          /\ ClearToken(m) => Empty(m)'
          /\ (Empty(m) /\ ~SetStep(m)) => Empty(m)'
          /\ Empty(m)' => getToken(m)' = Null
    ]_vars

\* A renewal had stored a token and the cache had an earlier page's token, and
\* the store is empty now: clearToken() has removed them.
C18_Witness ==
    /\ storageAvailable
    /\ \E id \in AttemptIds :
          attempts[id].mgr = "provider" /\ attempts[id].val = Str("tokB")
    /\ Empty("provider")
    /\ ~Empty("external")

\* Stores a and b have different storage-key namespaces.
DifferentNamespaces(a, b) ==
    {config[a].storageKey, config[a].expiryKey}
        \cap {config[b].storageKey, config[b].expiryKey} = {}

\* A step that is an operation on store a.
StoreOp(a) ==
    \/ SetStep(a)
    \/ ClearToken(a)
    \/ GetToken(a)
    \/ \E invocation \in FetcherInvocations : EnsureAccessToken(a, invocation)
    \/ \E id \in AttemptIds : attempts[id].mgr = a /\ FetchFails(id)

\* What store b lets a caller observe.
Observed(b) == <<getToken(b), isExpiringSoon(b, memoryExpiry[b]), getExpiresIn(b)>>

\* C19: stores with different storage-key namespaces do not interfere.  In
\* every step that is an operation on store a (setToken, clearToken,
\* getToken, ensureAccessToken, the completion of its renewal), every store b
\* with other keys gives the same getToken(), isExpiringSoon() and
\* getExpiresIn() as before, and keeps its cache and its persisted copy.
C19_NamespacesDoNotInterfere ==
    [][\A a, b \in StoreInstances :
          (a # b /\ DifferentNamespaces(a, b) /\ StoreOp(a)) =>
              /\ Observed(b)' = Observed(b)
              /\ memoryToken'[b] = memoryToken[b]
              /\ memoryExpiry'[b] = memoryExpiry[b]
              /\ PersistedToken(b)' = PersistedToken(b)
              /\ PersistedExpiry(b)' = PersistedExpiry(b)
    ]_vars

\* Both stores hold a token of their own, persisted under their own keys,
\* after a renewal on one of them.
C19_Witness ==
    /\ storageAvailable
    /\ PersistedToken("provider") = Str("tokB")
    /\ PersistedToken("external") = Str("tokB")
    /\ getToken("provider") = Str("tokB")
    /\ memoryToken["external"] = Null
    /\ \E id \in AttemptIds : attempts[id].mgr = "provider" /\ attempts[id].st = "fulfilled"

----------------------------------------------------------------------------
(* The return path, checked under SpecOAuth *)

\* C21: getReturnPath() returns the persisted return path and deletes it, and
\* returns "/" when none is persisted: a call made while a path is stored
\* (by the application, or by processCallback after a successful exchange)
\* yields that path and leaves none behind, so that the call after it yields
\* "/".
C21_ReturnPathReadOnce ==
    [][/\ GetReturnPath =>
             /\ getReturnPath(sessionStorage) = sessionStorage[RETURN_PATH_KEY]
             /\ sessionStorage'[RETURN_PATH_KEY] = Null
             /\ getReturnPath(sessionStorage') = Str("/")
       /\ \A i \in 1..Len(inv) :
             (Len(inv') = Len(inv) /\ inv[i].pc = "exchanging" /\ inv[i].mounted
                /\ inv'[i].pc = "succeeded") =>
                /\ inv'[i].returnPath =
                      IF sessionStorage[RETURN_PATH_KEY] = Null THEN Str("/")
                      ELSE sessionStorage[RETURN_PATH_KEY]
                /\ sessionStorage'[RETURN_PATH_KEY] = Null
                /\ getReturnPath(sessionStorage') = Str("/")]_vars

\* After a login was initiated and before any callback, the application has
\* read the return path: the CSRF state is still stored, the path is gone.
C21_Witness ==
    /\ logins = 1
    /\ navs = 0
    /\ Len(inv) = 0
    /\ sessionStorage[STATE_KEY] # Null
    /\ sessionStorage[RETURN_PATH_KEY] = Null

----------------------------------------------------------------------------
(* Claims about the orchestrator, checked under SpecAuth and SpecAuthLive *)

\* How often endpoint occurs among the requests.
Count(requests, endpoint) ==
    Cardinality({i \in 1..Len(requests) : requests[i] = endpoint})

\* C22: in BFF mode the mount-time check requests the user-info endpoint
\* exactly once, and only when the silent-auth attempt (if enabled) has
\* resolved and the token exchange (if a code came) has settled, whatever
\* their outcomes; when the check is done, user is the returned user after a
\* 2xx response with a user and null after 401, another status or a network
\* error, isLoading is false and error is as it was.
C22_UserInfoOnceAfterSilentAuth ==
    [][BffMode =>
          /\ Count(fetches', "bff/userinfo") <= 1
          /\ Count(fetches', "bff/userinfo") > Count(fetches, "bff/userinfo") =>
                /\ check'.silentAuth =
                      IF authConfig.enableSilentAuth THEN check'.silentAuth ELSE "none"
                /\ check'.silentAuth \in {"none", "code", "failed"}
                /\ check'.exchange \in
                      IF check'.silentAuth = "code" THEN ExchangeOutcomes ELSE {"none"}
                /\ Count(fetches, "/oauth/authorize") =
                      IF authConfig.enableSilentAuth THEN 1 ELSE 0
                /\ Count(fetches, "bff/exchange") =
                      IF check'.silentAuth = "code" THEN 1 ELSE 0
          /\ (check.pc # "done" /\ check'.pc = "done") =>
                /\ Count(fetches', "bff/userinfo") = 1
                /\ user' = IF check'.userInfo = "ok" THEN SessionUser ELSE Null
                /\ isLoading' = FALSE
                /\ authError' = authError
    ]_vars

\* Silent auth gave a code, the token exchange failed with a network error,
\* and the user-info endpoint returned the user.
C22_Witness ==
    /\ BffMode
    /\ check.pc = "done"
    /\ check.silentAuth = "code"
    /\ check.exchange = "network"
    /\ check.userInfo = "ok"
    /\ user = SessionUser
    /\ ~isLoading

\* C23: in direct mode, when the current-user request of the mount-time
\* check fails, the check ends with user null, isLoading false and a Token
\* Store that holds no token and no expiry, neither cached nor persisted.
C23_FailedCheckClears ==
    [][(~BffMode /\ check.pc = "currentUser" /\ check'.pc = "done") =>
          /\ user' = Null
          /\ isLoading' = FALSE
          /\ Empty("provider")'
          /\ getToken("provider")' = Null
    ]_vars

\* A login had completed (user and, possibly, token set) when the
\* current-user request of the check failed: nobody is logged in now.
C23_Witness ==
    /\ ~BffMode
    /\ check.pc = "done"
    /\ Count(fetches, "/oauth/token") = 1
    /\ Len(ops) = 1
    /\ ops[1].kind = "login" /\ ops[1].pc = "resolved" /\ ops[1].outcome = "ok"
    /\ user = Null
    /\ ~isLoading
    /\ Empty("provider")

\* C24: in direct mode, when the refresh-token exchange of a login() settles
\* (its login request had succeeded), login() resolves with user set to the
\* user of the login response and error as it was; the Token Store holds the
\* new token, cached and persisted, when the exchange succeeded and is as it
\* was when the exchange failed.
C24_LoginSetsUser ==
    [][\A i \in 1..Len(ops) :
          (~BffMode /\ ops[i].pc = "refresh" /\ ops'[i].pc # "refresh") =>
             /\ ops'[i].pc = "resolved"
             /\ user' = LoginUser
             /\ user' = ops[i].user
             /\ authError' = authError
             /\ IF ops'[i].outcome = "ok"
                THEN /\ memoryToken'["provider"] = Str("tokB")
                     /\ memoryExpiry'["provider"] = expiryTime(3600)
                     /\ PersistedToken("provider")' = Str("tokB")
                     /\ getToken("provider")' = Str("tokB")
                ELSE /\ ops'[i].outcome = "failed"
                     /\ UNCHANGED <<memoryToken, memoryExpiry, sessionStorage>>
    ]_vars

\* A login whose exchange failed has resolved: the user of the login response
\* is set, no error is shown and the Token Store is empty.
C24_Witness ==
    /\ ~BffMode
    /\ Len(ops) = 1
    /\ ops[1].kind = "login" /\ ops[1].pc = "resolved" /\ ops[1].outcome = "failed"
    /\ user = LoginUser
    /\ authError = Null
    /\ Empty("provider")

\* C25: in direct mode, when the logout request of a logout() settles,
\* logout() resolves with user null and the Token Store empty; error is as it
\* was when the request succeeded and is the failure's message when it failed.
C25_LogoutAlwaysClears ==
    [][\A i \in 1..Len(ops) :
          (~BffMode /\ ops[i].pc = "logout" /\ ops'[i].pc # "logout") =>
             /\ ops'[i].pc = "resolved"
             /\ user' = Null
             /\ Empty("provider")'
             /\ authError' = IF ops'[i].outcome = "ok" THEN authError
                             ELSE Str("Logout failed")
    ]_vars

\* After a login that stored a token, a logout whose request failed has
\* resolved: an error is shown, nobody is logged in, the store is empty.
C25_Witness ==
    /\ ~BffMode
    /\ Len(ops) = 2
    /\ ops[1].kind = "login" /\ ops[1].pc = "resolved" /\ ops[1].outcome = "ok"
    /\ ops[2].kind = "logout" /\ ops[2].pc = "resolved" /\ ops[2].outcome = "failed"
    /\ authError = Str("Logout failed")
    /\ user = Null
    /\ Empty("provider")

\* C26: in BFF mode (mode 'bff' with a bff object) a call of login() or
\* logout() only assigns window.location.href: it requests nothing and leaves
\* user, isLoading, error and the Token Store as they were.
C26_BffOnlyRedirects ==
    [][(BffMode /\ Len(ops') = Len(ops) + 1
          /\ ops'[Len(ops')].kind \in {"login", "logout"}) =>
          /\ ops'[Len(ops')].redirected
          /\ href' = IF ops'[Len(ops')].kind = "login" THEN "bff/login" ELSE "bff/logout"
          /\ fetches' = fetches
          /\ UNCHANGED <<user, isLoading, authError, memoryToken, memoryExpiry,
                         sessionStorage>>
    ]_vars

\* C27: the mount-time check ends: in every configuration, when the effect
\* runs, trySilentAuth() resolves and every request of the check settles,
\* a state is reached in which the check is done and isLoading is false, with
\* a user or with none.
C27_EventuallyLoaded ==
    <>(check.pc = "done" /\ isLoading = FALSE /\ user \in {Null, SessionUser, LoginUser})

\* The check of a BFF configuration without silent auth has ended without a
\* user, after the user-info endpoint answered 500.
C27_Witness ==
    /\ BffMode
    /\ ~authConfig.enableSilentAuth
    /\ check.pc = "done"
    /\ check.userInfo = "500"
    /\ isLoading = FALSE
    /\ user = Null
    /\ ops = <<>>

----------------------------------------------------------------------------
(* Claims about the authenticated client, checked under SpecAxios *)

\* The attempt ended in a way that the client retries.
Retryable(outcome) ==
    \/ outcome.kind = "network"
    \/ outcome.kind = "response" /\ outcome.status \in {408, 429, 500, 502, 503, 504}

\* C28: a request is retried only after a network error or a response with
\* status 408, 429, 500, 502, 503 or 504, and at most twice (three attempts);
\* its retry count never decreases and counts the retries; the n-th retry
\* waits 1000 * 2^(n-1) ms; and when an attempt fails that is not retried
\* (the retries being exhausted if the failure is of a retried kind), the
\* caller's promise is rejected with that attempt's error.
C28_BoundedBackoffRetries ==
    [][\A i \in 1..Len(reqs) :
          LET r == reqs[i]
              r2 == reqs'[i]
          IN r2 # r =>
                /\ Len(r2.delays) <= 2
                /\ r2.sent <= 3
                /\ r2.sent = Len(r2.delays) + (IF r2.pc = "sleeping" THEN 0 ELSE 1)
                /\ \A n \in 1..Len(r2.delays) : r2.delays[n] = 1000 * Pow2(n - 1)
                /\ retryCountOf(r2.retryHeader) = Num(Len(r2.delays))
                /\ retryCountOf(r2.retryHeader).n >= retryCountOf(r.retryHeader).n
                /\ Len(r2.delays) > Len(r.delays) => Retryable(r2.last)
                /\ r2.pc = "rejected" =>
                      /\ r2.rejection = r2.last
                      /\ Retryable(r2.last) => Len(r2.delays) = 2
                /\ (r.pc = "inflight" /\ Retryable(r2.last) /\ Len(r.delays) < 2) =>
                      r2.pc = "sleeping"
    ]_vars

\* A request was answered 503, network error and 503: it was sent three
\* times, after 1000 ms and after 2000 ms, and was rejected with the last 503.
C28_Witness ==
    \E i \in 1..Len(reqs) :
       /\ reqs[i].pc = "rejected"
       /\ reqs[i].sent = 3
       /\ reqs[i].delays = <<1000, 2000>>
       /\ reqs[i].rejection = Outcome("response", 503)

\* C29: a 401 response is never retried: the attempt that receives it calls
\* onUnauthorized() once and rejects the caller's promise with it; an
\* attempt that ends otherwise (retried or not) does not call
\* onUnauthorized(), so a request calls it at most once.
C29_UnauthorizedOnce ==
    [][\A i \in 1..Len(reqs) :
          LET r == reqs[i]
              r2 == reqs'[i]
          IN (r.pc = "inflight" /\ r2 # r) =>
                /\ IF r2.last = Outcome("response", 401)
                   THEN /\ r2.pc = "rejected"
                        /\ r2.rejection = r2.last
                        /\ r2.delays = r.delays
                        /\ r2.unauthorized = 1
                        /\ r.unauthorized = 0
                   ELSE r2.unauthorized = r.unauthorized
                /\ r2.pc = "sleeping" => r2.unauthorized = 0
    ]_vars

\* A request was answered 503, then (after the backoff) 401: onUnauthorized()
\* was called once and the request was rejected with the 401.
C29_Witness ==
    \E i \in 1..Len(reqs) :
       /\ reqs[i].pc = "rejected"
       /\ reqs[i].sent = 2
       /\ reqs[i].rejection = Outcome("response", 401)
       /\ reqs[i].unauthorized = 1

----------------------------------------------------------------------------
(* Claims about the external-token provider, checked under SpecExternal *)

\* C30: the poll never fires after teardown: a timer that fires is the timer
\* of the effect that is set up at that moment, and after every step the only
\* timer still scheduled, if any, is that effect's; once the provider is
\* unmounted, or the effect has run again, the earlier timers are cancelled.
C30_NoPollAfterTeardown ==
    [][/\ \A t \in 1..Len(timers) :
             (timers[t].active /\ PollFires(t)) =>
                (effect # 0 /\ timers[t].effect = effect)
       /\ \A t \in 1..Len(timers') :
             timers'[t].active => (effect' # 0 /\ timers'[t].effect = effect')
    ]_vars

\* The effect ran twice (mount, then a dependency change) and the provider
\* was unmounted; the shell has replaced its token since, and no sync has
\* picked it up: both timers are cancelled.
C30_Witness ==
    /\ effect = 0
    /\ runs = 2
    /\ Len(timers) = 2
    /\ \A t \in 1..Len(timers) : ~timers[t].active
    /\ lastTokenRef # NoToken
    /\ shellToken # lastTokenRef

----------------------------------------------------------------------------
(* Claims about concurrent use of the orchestrator, checked under SpecAuth *)

\* The refresh-token requests to /oauth/token that are in flight: the one of
\* the mount-time check, those of login() and those of refreshToken().
InFlightRefreshes ==
    (IF check.pc = "refresh" THEN 1 ELSE 0)
    + Cardinality({i \in 1..Len(ops) : ops[i].pc \in {"refresh", "refreshToken"}})

\* C31: in direct mode at most one refresh-token request to /oauth/token is
\* in flight at any time, across the mount-time check, login() and
\* refreshToken() in any interleaving.
C31_OneRefreshInFlight == ~BffMode => InFlightRefreshes <= 1

\* A direct-mode logout() was the last call made and has resolved, every
\* login() made before it has finished, and user is null.
LoggedOut ==
    /\ ~BffMode
    /\ Len(ops) > 0
    /\ ops[Len(ops)].kind = "logout"
    /\ ops[Len(ops)].pc = "resolved"
    /\ \A i \in 1..Len(ops) : ops[i].kind = "login" => ops[i].pc \in {"resolved", "rejected"}
    /\ user = Null

\* C34: once a direct-mode logout() has resolved, user stays null as long as
\* no call is made and no check is started: the response of a mount-time
\* check or of a refreshUser() that was requested before does not set the
\* user again.
C34_LoggedOutStaysLoggedOut ==
    [][(LoggedOut /\ check.pc # "mount" /\ Len(ops') = Len(ops)) => user' = Null]_vars

----------------------------------------------------------------------------
(* Further claims about the Token Store *)

\* C32: whenever the cache of a Token Store holds a token and a copy is
\* persisted under its keys, the persisted token is the cached one and the
\* persisted expiry reads as the cached expiry (checked under SpecQuota, in
\* which writes to the storage may fail).
C32_CacheMatchesPersisted ==
    \A m \in {"provider"} :
       (memoryToken[m] # Null /\ PersistedToken(m) # Null) =>
          /\ PersistedToken(m) = memoryToken[m]
          /\ PersistedExpiry(m) # Null
          /\ parseInt(PersistedExpiry(m)) = memoryExpiry[m]

\* C33: once clearToken() has returned, getToken() stays absent until a
\* setToken() or an ensureAccessToken() call is made (checked under
\* SpecClear, in which no ensureAccessToken() is called on an empty store): in
\* every step from an empty store that is not a setToken() call, also the
\* completion of a renewal that was in flight at the clearToken(), getToken()
\* returns absent afterwards.
C33_ClearedStaysAbsent ==
    [][(Empty("provider")
          /\ ~\E token \in Tokens, expiresIn \in StoreTTLs :
                 SetToken("provider", token, expiresIn)) =>
          getToken("provider")' = Null]_vars

\* C35: of two stores that use the same keys, a clearToken() on one empties
\* what the other returns: in every step that is a clearToken() on store a,
\* getToken() on the other store b returns absent afterwards, also when b had
\* the token in its cache.
C35_ClearReachesOtherInstance ==
    [][\A a, b \in Managers :
          (a # b /\ config[a].storageKey = config[b].storageKey
                 /\ config[a].expiryKey = config[b].expiryKey
                 /\ ClearToken(a)) =>
              getToken(b)' = Null]_vars

\* C36: the custom instance (own storageKey, default expiryKey) and the
\* default instance do not interfere: in every step that is a setToken() or a
\* clearToken() on one of them, the other reads the same persisted expiry as
\* before and would return the same getToken() after a reload (the token
\* getToken() restores from sessionStorage).
C36_CustomKeyDoesNotInterfere ==
    [][\A a, b \in CustomInstances :
          (a # b /\ (ClearToken(a)
                       \/ \E token \in Tokens, expiresIn \in StoreTTLs :
                             SetToken(a, token, expiresIn))) =>
              /\ PersistedExpiry(b)' = PersistedExpiry(b)
              /\ getTokenStorageOnly(b)' = getTokenStorageOnly(b)]_vars

\* C37: a failed renewal leaves the Token Store unchanged.  In every step in
\* which the catch block of a renewal runs while getToken() of its store
\* returns a token, the renewal's promise is fulfilled with absent and the
\* cache, the persisted token and expiry and what getToken() returns are the
\* same afterwards; and an ensureAccessToken() call that waited for a failed
\* renewal resolves to absent.
C37_FailedRenewalKeepsStore ==
    [][/\ \A id \in 1..Len(attempts) :
             (/\ Len(attempts') = Len(attempts)
              /\ attempts'[id].failures > attempts[id].failures
              /\ getToken(attempts[id].mgr) # Null) =>
                 LET m == attempts[id].mgr
                 IN /\ attempts'[id].st = "fulfilled"
                    /\ attempts'[id].val = Null
                    /\ memoryToken'[m] = memoryToken[m]
                    /\ memoryExpiry'[m] = memoryExpiry[m]
                    /\ PersistedToken(m)' = PersistedToken(m)
                    /\ PersistedExpiry(m)' = PersistedExpiry(m)
                    /\ getToken(m)' = getToken(m)
       /\ \A c \in 1..Len(calls) :
             (/\ Len(calls') = Len(calls)
              /\ calls[c].st = "waiting"
              /\ calls'[c].st \notin {"waiting", "dropped"}
              /\ attempts[calls[c].att].failures > 0) =>
                 /\ calls'[c].st = "resolved"
                 /\ calls'[c].val = Null
    ]_vars

\* The renewal of the expiring-soon persisted token failed, the call that
\* waited for it resolved to absent, and getToken() still returns the token
\* from the cache, which the persisted copy matches.
C37_Witness ==
    /\ \E c \in 1..Len(calls) :
          /\ calls[c].mgr = "provider"
          /\ calls[c].st = "resolved"
          /\ calls[c].val = Null
          /\ calls[c].renewing
          /\ attempts[calls[c].att].failures > 0
    /\ getToken("provider") = Str("tokS")
    /\ memoryToken["provider"] = Str("tokS")
    /\ PersistedToken("provider") = Str("tokS")
    /\ isExpiringSoon("provider", memoryExpiry["provider"])

\* C38: every attempt of a request, retries included, carries the token that
\* tokenGetter returns when the attempt is sent, and no Authorization header
\* when tokenGetter returns no token then.  In every step that sends an
\* attempt (a new request, or the retry after a backoff), the Authorization
\* header of the request sent is what tokenGetter() returns in that step.
C38_AttemptCarriesCurrentToken ==
    [][\A i \in 1..Len(reqs') :
          (i > Len(reqs) \/ reqs'[i].sent > reqs[i].sent) =>
              reqs'[i].authorization = tokenGetter]_vars

\* C39: in the external-token variant isLoading is false once the initial
\* sync at mount has run, whatever getAccessToken() returned; with no token
\* from the shell the user is null then.
C39_LoadedAfterMount ==
    runs > 0 =>
       /\ ~extLoading
       /\ lastTokenRef = NoToken => extUser = Null

\* C40: in the external-token variant, after every syncToken() (at mount,
\* when the effect runs again, at a poll) the provider's Token Store holds no
\* token or the token the shell supplies now: its cache, its persisted copy
\* and what getToken() returns are absent or that token; and when the shell's
\* token cannot be decoded the user is null and the store is empty.
C40_StoreHoldsCurrentToken ==
    [][(Mount \/ DepsChange \/ \E t \in 1..MaxRuns : PollFires(t)) =>
          /\ memoryToken'["external"] \in {Null, Str(shellToken.id)}
          /\ PersistedToken("external")' \in {Null, Str(shellToken.id)}
          /\ getToken("external")' \in {Null, Str(shellToken.id)}
          /\ (shellToken # NoToken /\ decodeJwtPayload(shellToken) = Null) =>
                 /\ extUser' = Null
                 /\ Empty("external")']_vars

====
